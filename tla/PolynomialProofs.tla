-------------------------- MODULE PolynomialProofs --------------------------
(***************************************************************************)
(* Facts about PrimeField and SubproductDomain, for every prime P.         *)
(*                                                                         *)
(* The residues form a field, sums and products over an index can be       *)
(* unfolded, split and exchanged, and a polynomial divides by x - a.  The  *)
(* fast operations on polynomials, over any points, give what they are     *)
(* named for: division (DivisionIsEuclids), evaluation                     *)
(* (TreeEvaluateGivesValues), the Lagrange coefficients                    *)
(* (LagrangeFromTreeIs), interpolation (InterpolateIsInverse) and the      *)
(* product with a Toeplitz matrix (ToeplitzMulIs).                         *)
(*                                                                         *)
(* The sums and the functions on the tree are recursive functions, so the  *)
(* facts about them need an induction.  It is carried out on the set of    *)
(* the numbers, or of the points, that a fact holds for (Induction,        *)
(* TreeInduction), which needs no operator as a parameter.                 *)
(***************************************************************************)
EXTENDS SubproductDomain, FiniteSetTheorems, SequenceTheorems,
        WellFoundedInduction, TLAPS

-----------------------------------------------------------------------------
(***************************************************************************)
(* Induction on the natural numbers.                                       *)
(***************************************************************************)

Smaller == {p \in Nat \X Nat : p[1] < p[2]}

LEMMA SmallerIsWellFounded == IsWellFoundedOn(Smaller, Nat)
<1>1. OpToRel(<, Nat) = Smaller
  BY DEF OpToRel, Smaller
<1> QED BY <1>1, NatLessThanWellFounded, Zenon

\* A set with 0 that is closed under successor holds every number.
LEMMA Induction ==
  ASSUME NEW S, 0 \in S, \A n \in Nat : n \in S => n + 1 \in S
  PROVE  Nat \subseteq S
<1> SUFFICES ASSUME NEW z \in Nat, z \notin S PROVE FALSE
  OBVIOUS
<1> DEFINE T == Nat \ S
<1>1. PICK x \in T : \A y \in T : ~(<<y, x>> \in Smaller)
  <2>1. T \subseteq Nat /\ T # {}
    OBVIOUS
  <2> HIDE DEF T
  <2> QED BY <2>1, SmallerIsWellFounded, WFMin
<1>2. x # 0 /\ x - 1 \in Nat
  OBVIOUS
<1>3. <<x - 1, x>> \in Smaller
  BY <1>2 DEF Smaller
<1>4. x - 1 \notin T
  BY <1>1, <1>3
<1> QED BY <1>2, <1>4

-----------------------------------------------------------------------------
(***************************************************************************)
(* Residues.                                                               *)
(***************************************************************************)

LEMMA ModulusIsNat == P \in Nat /\ P > 1
BY PrimeAssumption

LEMMA ResidueIsInField == \A a \in Int : a % P \in Field
BY ModulusIsNat DEF Field

LEMMA FieldIsInt == Field \subseteq Int
BY ModulusIsNat DEF Field

\* A residue is its own residue.
LEMMA ResidueOfField == \A a \in Field : a % P = a
BY ModulusIsNat DEF Field

\* Adding a multiple of P does not change the residue.
LEMMA AddMultiple ==
  ASSUME NEW a \in Int, NEW q \in Int
  PROVE  (q * P + a) % P = a % P
<1> DEFINE d == a \div P  r == a % P
<1>1. a = P * d + r /\ r \in 0 .. P - 1 /\ d \in Int
  BY ModulusIsNat
<1> HIDE DEF d, r
<1>2. q * P + a = (q + d) * P + r
  BY <1>1, ModulusIsNat
<1>3. ((q + d) * P + r) % P = r
  <2> DEFINE n == q + d
  <2>1. n \in Int
    BY <1>1
  <2> HIDE DEF n
  <2>2. (n * P + r) % P = r
    BY <2>1, <1>1, ModulusIsNat
  <2> QED BY <2>2 DEF n
<1> QED BY <1>2, <1>3 DEF r

LEMMA ReduceInSum ==
  ASSUME NEW a \in Int, NEW b \in Int
  PROVE  ((a % P) + b) % P = (a + b) % P
<1> DEFINE d == a \div P  r == a % P
<1>1. a = P * d + r /\ r \in Int /\ d \in Int
  BY ModulusIsNat
<1> HIDE DEF d, r
<1>2. a + b = d * P + (r + b)
  BY <1>1, ModulusIsNat
<1>3. (d * P + (r + b)) % P = (r + b) % P
  BY <1>1, AddMultiple
<1> QED BY <1>2, <1>3 DEF r

LEMMA ReduceInProduct ==
  ASSUME NEW a \in Int, NEW b \in Int
  PROVE  ((a % P) * b) % P = (a * b) % P
<1> DEFINE d == a \div P  r == a % P
<1>1. a = P * d + r /\ r \in Int /\ d \in Int
  BY ModulusIsNat
<1> HIDE DEF d, r
<1>2. a * b = (d * b) * P + r * b
  BY <1>1, ModulusIsNat
<1>3. d * b \in Int /\ r * b \in Int
  BY <1>1
<1>4. ((d * b) * P + r * b) % P = (r * b) % P
  BY <1>3, AddMultiple
<1> QED BY <1>2, <1>4 DEF r

\* Reducing an argument first does not change a sum, difference or product.
LEMMA Reductions ==
  \A a, b \in Int :
    /\ ((a % P) + b) % P = (a + b) % P
    /\ (a + (b % P)) % P = (a + b) % P
    /\ ((a % P) - b) % P = (a - b) % P
    /\ (a - (b % P)) % P = (a - b) % P
    /\ ((a % P) * b) % P = (a * b) % P
    /\ (a * (b % P)) % P = (a * b) % P
<1> SUFFICES ASSUME NEW a \in Int, NEW b \in Int
             PROVE  /\ ((a % P) + b) % P = (a + b) % P
                    /\ (a + (b % P)) % P = (a + b) % P
                    /\ ((a % P) - b) % P = (a - b) % P
                    /\ (a - (b % P)) % P = (a - b) % P
                    /\ ((a % P) * b) % P = (a * b) % P
                    /\ (a * (b % P)) % P = (a * b) % P
  OBVIOUS
<1> DEFINE ra == a % P  rb == b % P
<1>0. ra \in Int /\ rb \in Int
  BY ModulusIsNat
<1>1. (ra + b) % P = (a + b) % P
  BY ReduceInSum
<1>2. (rb + a) % P = (b + a) % P
  BY ReduceInSum
<1>3. (ra + (-b)) % P = (a + (-b)) % P
  <2>1. -b \in Int
    OBVIOUS
  <2> QED BY <2>1, ReduceInSum
<1>4. (ra * b) % P = (a * b) % P
  BY ReduceInProduct
<1>5. (rb * a) % P = (b * a) % P
  BY ReduceInProduct
<1>6. (a - rb) % P = (a - b) % P
  <2> DEFINE d == b \div P
  <2>1. b = P * d + rb /\ d \in Int
    BY ModulusIsNat
  <2> HIDE DEF d, ra, rb
  <2>2. a - rb = d * P + (a - b)
    BY <2>1, <1>0, ModulusIsNat
  <2>3. a - b \in Int
    OBVIOUS
  <2>4. (d * P + (a - b)) % P = (a - b) % P
    BY <2>1, <2>3, AddMultiple
  <2> QED BY <2>2, <2>4
<1> HIDE DEF ra, rb
<1>7. /\ rb + a = a + rb /\ b + a = a + b
      /\ ra + (-b) = ra - b /\ a + (-b) = a - b
      /\ rb * a = a * rb /\ b * a = a * b
  BY <1>0
<1>8. /\ (ra + b) % P = (a + b) % P
      /\ (a + rb) % P = (a + b) % P
      /\ (ra - b) % P = (a - b) % P
      /\ (a - rb) % P = (a - b) % P
      /\ (ra * b) % P = (a * b) % P
      /\ (a * rb) % P = (a * b) % P
  BY <1>1, <1>2, <1>3, <1>4, <1>5, <1>6, <1>7
<1> QED BY <1>8 DEF ra, rb


Residue(a) == a % P

\* The operations are those of the integers, reduced.
LEMMA Reduced ==
  \A a, b \in Int :
    /\ Residue(a) \in Field
    /\ Add(a, b) = Residue(a + b)
    /\ Sub(a, b) = Residue(a - b)
    /\ Mul(a, b) = Residue(a * b)
    /\ Neg(a) = Residue(-a)
    /\ Add(Residue(a), b) = Residue(a + b)
    /\ Add(a, Residue(b)) = Residue(a + b)
    /\ Sub(Residue(a), b) = Residue(a - b)
    /\ Sub(a, Residue(b)) = Residue(a - b)
    /\ Mul(Residue(a), b) = Residue(a * b)
    /\ Mul(a, Residue(b)) = Residue(a * b)
BY Reductions, ResidueIsInField DEF Residue, Add, Sub, Mul, Neg

LEMMA ResidueFixed == \A a \in Field : a \in Int /\ Residue(a) = a
BY ResidueOfField, FieldIsInt DEF Residue

-----------------------------------------------------------------------------
(***************************************************************************)
(* The laws of a field.                                                    *)
(***************************************************************************)

LEMMA Closed ==
  /\ 0 \in Field /\ 1 \in Field
  /\ \A a, b \in Field : Add(a, b) \in Field /\ Sub(a, b) \in Field
                         /\ Mul(a, b) \in Field /\ Neg(a) \in Field
<1>1. 0 \in Field /\ 1 \in Field
  BY ModulusIsNat DEF Field
<1>2. ASSUME NEW a \in Field, NEW b \in Field
      PROVE  Add(a, b) \in Field /\ Sub(a, b) \in Field /\ Mul(a, b) \in Field
             /\ Neg(a) \in Field
  <2>1. a \in Int /\ b \in Int
    BY FieldIsInt
  <2>2. a + b \in Int /\ a - b \in Int /\ -a \in Int
    BY <2>1
  <2>3. a * b \in Int
    BY <2>1
  <2> QED BY <2>1, <2>2, <2>3, ResidueIsInField DEF Add, Sub, Mul, Neg
<1> QED BY <1>1, <1>2

LEMMA AddLaws ==
  \A a, b, c \in Field :
    /\ Add(a, 0) = a
    /\ Add(0, a) = a
    /\ Add(a, b) = Add(b, a)
    /\ Add(Add(a, b), c) = Add(a, Add(b, c))
<1> SUFFICES ASSUME NEW a \in Field, NEW b \in Field, NEW c \in Field
             PROVE  /\ Add(a, 0) = a
                    /\ Add(0, a) = a
                    /\ Add(a, b) = Add(b, a)
                    /\ Add(Add(a, b), c) = Add(a, Add(b, c))
  OBVIOUS
<1>1. a \in Int /\ b \in Int /\ c \in Int /\ a + b \in Int /\ b + c \in Int
  BY FieldIsInt
<1>2. Add(a, 0) = Residue(a) /\ Add(0, a) = Residue(a)
  BY <1>1, Reduced
<1>3. Add(a, b) = Add(b, a)
  BY <1>1, Reduced
<1>4. Add(Add(a, b), c) = Residue((a + b) + c)
  BY <1>1, Reduced
<1>5. Add(a, Add(b, c)) = Residue(a + (b + c))
  BY <1>1, Reduced
<1> QED BY <1>1, <1>2, <1>3, <1>4, <1>5, ResidueFixed

LEMMA MulLaws ==
  \A a, b, c \in Field :
    /\ Mul(a, 1) = a
    /\ Mul(1, a) = a
    /\ Mul(a, 0) = 0
    /\ Mul(0, a) = 0
    /\ Mul(a, b) = Mul(b, a)
    /\ Mul(Mul(a, b), c) = Mul(a, Mul(b, c))
<1> SUFFICES ASSUME NEW a \in Field, NEW b \in Field, NEW c \in Field
             PROVE  /\ Mul(a, 1) = a
                    /\ Mul(1, a) = a
                    /\ Mul(a, 0) = 0
                    /\ Mul(0, a) = 0
                    /\ Mul(a, b) = Mul(b, a)
                    /\ Mul(Mul(a, b), c) = Mul(a, Mul(b, c))
  OBVIOUS
<1>1. a \in Int /\ b \in Int /\ c \in Int /\ a * b \in Int /\ b * c \in Int
  BY FieldIsInt
<1>2. Mul(a, 1) = Residue(a) /\ Mul(1, a) = Residue(a)
  <2>1. Mul(a, 1) = Residue(a * 1) /\ Mul(1, a) = Residue(1 * a)
    BY Zenon DEF Mul, Residue
  <2>2. a * 1 = a /\ 1 * a = a
    BY <1>1
  <2> QED BY <2>1, <2>2
<1>3. Mul(a, 0) = Residue(0) /\ Mul(0, a) = Residue(0)
  BY <1>1, Reduced
<1>4. Mul(a, b) = Mul(b, a)
  BY <1>1, Reduced
<1>5. Mul(Mul(a, b), c) = Residue((a * b) * c)
  BY <1>1, Reduced
<1>6. Mul(a, Mul(b, c)) = Residue(a * (b * c))
  BY <1>1, Reduced
<1>7. (a * b) * c = a * (b * c)
  BY <1>1
<1> QED BY <1>2, <1>3, <1>4, <1>5, <1>6, <1>7, ResidueFixed, Closed

LEMMA Distributes ==
  \A a, b, c \in Field :
    /\ Mul(a, Add(b, c)) = Add(Mul(a, b), Mul(a, c))
    /\ Mul(a, Sub(b, c)) = Sub(Mul(a, b), Mul(a, c))
<1> SUFFICES ASSUME NEW a \in Field, NEW b \in Field, NEW c \in Field
             PROVE  /\ Mul(a, Add(b, c)) = Add(Mul(a, b), Mul(a, c))
                    /\ Mul(a, Sub(b, c)) = Sub(Mul(a, b), Mul(a, c))
  OBVIOUS
<1>1. /\ a \in Int /\ b \in Int /\ c \in Int /\ b + c \in Int /\ b - c \in Int
      /\ a * b \in Int /\ a * c \in Int
      /\ Residue(a * b) \in Int /\ Residue(a * c) \in Int
  <2>1. a \in Int /\ b \in Int /\ c \in Int
    BY FieldIsInt
  <2>2. b + c \in Int /\ b - c \in Int
    BY <2>1
  <2>3. a * b \in Int /\ a * c \in Int
    BY <2>1
  <2>4. Residue(a * b) \in Field /\ Residue(a * c) \in Field
    BY <2>3, Reduced
  <2> QED BY <2>1, <2>2, <2>3, <2>4, FieldIsInt
<1>2. /\ Mul(a, Add(b, c)) = Residue(a * (b + c))
      /\ Mul(a, Sub(b, c)) = Residue(a * (b - c))
  <2>1. Add(b, c) = Residue(b + c) /\ Sub(b, c) = Residue(b - c)
    BY <1>1, Reduced
  <2>2. Mul(a, Residue(b + c)) = Residue(a * (b + c))
    BY <1>1, Reduced
  <2>3. Mul(a, Residue(b - c)) = Residue(a * (b - c))
    BY <1>1, Reduced
  <2> QED BY <2>1, <2>2, <2>3
<1>3. Add(Mul(a, b), Mul(a, c)) = Residue(a * b + a * c)
  <2>1. Add(Residue(a * b), Residue(a * c)) = Residue(a * b + Residue(a * c))
    BY <1>1, Reduced
  <2>2. Add(a * b, Residue(a * c)) = Residue(a * b + Residue(a * c))
    BY <1>1, Reduced
  <2>3. Add(a * b, Residue(a * c)) = Residue(a * b + a * c)
    BY <1>1, Reduced
  <2> QED BY <1>1, <2>1, <2>2, <2>3, Reduced
<1>4. Sub(Mul(a, b), Mul(a, c)) = Residue(a * b - a * c)
  <2>1. Sub(Residue(a * b), Residue(a * c)) = Residue(a * b - Residue(a * c))
    BY <1>1, Reduced
  <2>2. Sub(a * b, Residue(a * c)) = Residue(a * b - Residue(a * c))
    BY <1>1, Reduced
  <2>3. Sub(a * b, Residue(a * c)) = Residue(a * b - a * c)
    BY <1>1, Reduced
  <2> QED BY <1>1, <2>1, <2>2, <2>3, Reduced
<1>5. a * (b + c) = a * b + a * c /\ a * (b - c) = a * b - a * c
  BY <1>1
<1> QED BY <1>2, <1>3, <1>4, <1>5

LEMMA SubLaws ==
  \A a, b, c \in Field :
    /\ Sub(a, a) = 0
    /\ Sub(a, 0) = a
    /\ Sub(a, b) = 0 => a = b
    /\ Add(Sub(a, b), b) = a
    /\ Sub(Add(a, b), b) = a
    /\ Sub(Sub(a, b), Sub(c, b)) = Sub(a, c)
    /\ Add(Sub(a, b), Sub(b, c)) = Sub(a, c)
    /\ Neg(a) = Sub(0, a)
    /\ Sub(a, b) = Neg(Sub(b, a))
<1> SUFFICES ASSUME NEW a \in Field, NEW b \in Field, NEW c \in Field
             PROVE  /\ Sub(a, a) = 0
                    /\ Sub(a, 0) = a
                    /\ Sub(a, b) = 0 => a = b
                    /\ Add(Sub(a, b), b) = a
                    /\ Sub(Add(a, b), b) = a
                    /\ Sub(Sub(a, b), Sub(c, b)) = Sub(a, c)
                    /\ Add(Sub(a, b), Sub(b, c)) = Sub(a, c)
                    /\ Neg(a) = Sub(0, a)
                    /\ Sub(a, b) = Neg(Sub(b, a))
  OBVIOUS
<1>1. /\ a \in Int /\ b \in Int /\ c \in Int /\ 0 \in Int
      /\ a - b \in Int /\ a + b \in Int /\ c - b \in Int /\ b - c \in Int /\ b - a \in Int
      /\ Residue(c - b) \in Int /\ Residue(b - c) \in Int /\ Residue(b - a) \in Int
  <2>1. a \in Int /\ b \in Int /\ c \in Int /\ 0 \in Int
    BY FieldIsInt
  <2>2. a - b \in Int /\ a + b \in Int /\ c - b \in Int /\ b - c \in Int /\ b - a \in Int
    BY <2>1
  <2>3. Residue(c - b) \in Field /\ Residue(b - c) \in Field /\ Residue(b - a) \in Field
    BY <2>2, Reduced
  <2> QED BY <2>1, <2>2, <2>3, FieldIsInt
<1>2. /\ a - a = 0 /\ a - 0 = a /\ a - b + b = a /\ a + b - b = a
      /\ (a - b) - (c - b) = a - c
      /\ (a - b) + (b - c) = a - c
      /\ 0 - a = -a
      /\ 0 - (b - a) = a - b
  BY <1>1
<1>3. Sub(a, a) = 0 /\ Sub(a, 0) = a
  BY <1>1, <1>2, Reduced, ResidueFixed, Closed
<1>4. Add(Sub(a, b), b) = a
  <2>1. Add(Residue(a - b), b) = Residue(a - b + b)
    BY <1>1, Reduced
  <2> QED BY <1>1, <1>2, <2>1, Reduced, ResidueFixed
<1>5. Sub(Add(a, b), b) = a
  <2>1. Sub(Residue(a + b), b) = Residue(a + b - b)
    BY <1>1, Reduced
  <2> QED BY <1>1, <1>2, <2>1, Reduced, ResidueFixed
<1>6. Sub(Sub(a, b), Sub(c, b)) = Sub(a, c)
  <2>1. Sub(Residue(a - b), Residue(c - b)) = Residue((a - b) - Residue(c - b))
    BY <1>1, Reduced
  <2>2. Sub(a - b, Residue(c - b)) = Residue((a - b) - Residue(c - b))
    BY <1>1, Reduced
  <2>3. Sub(a - b, Residue(c - b)) = Residue((a - b) - (c - b))
    BY <1>1, Reduced
  <2> QED BY <1>1, <1>2, <2>1, <2>2, <2>3, Reduced
<1>7. Add(Sub(a, b), Sub(b, c)) = Sub(a, c)
  <2>1. Add(Residue(a - b), Residue(b - c)) = Residue((a - b) + Residue(b - c))
    BY <1>1, Reduced
  <2>2. Add(a - b, Residue(b - c)) = Residue((a - b) + Residue(b - c))
    BY <1>1, Reduced
  <2>3. Add(a - b, Residue(b - c)) = Residue((a - b) + (b - c))
    BY <1>1, Reduced
  <2> QED BY <1>1, <1>2, <2>1, <2>2, <2>3, Reduced
<1>8. Neg(a) = Sub(0, a)
  BY <1>1, <1>2, Reduced
<1>9. Sub(a, b) = Neg(Sub(b, a))
  <2>1. Sub(0, Residue(b - a)) = Residue(0 - (b - a))
    BY <1>1, Reduced
  <2>2. Neg(Residue(b - a)) = Residue(-Residue(b - a))
    BY <1>1, Reduced
  <2>3. Sub(0, Residue(b - a)) = Residue(0 - Residue(b - a))
    BY <1>1, Reduced
  <2>4. 0 - Residue(b - a) = -Residue(b - a)
    BY <1>1
  <2> QED BY <1>1, <1>2, <2>1, <2>2, <2>3, <2>4, Reduced
<1>10. Sub(a, b) = 0 => a = b
  BY <1>4, AddLaws, Closed
<1> QED BY <1>3, <1>4, <1>5, <1>6, <1>7, <1>8, <1>9, <1>10

\* The distance of two elements.
LEMMA Differences ==
  ASSUME NEW a \in Field, NEW b \in Field
  PROVE  /\ Sub(a, b) \in Field
         /\ a # b => Sub(a, b) # 0
         /\ a = Add(b, Sub(a, b))
<1>1. Sub(a, b) \in Field
  BY Closed
<1>2. (a # b => Sub(a, b) # 0) /\ Add(Sub(a, b), b) = a
  BY SubLaws
<1>3. Add(b, Sub(a, b)) = Add(Sub(a, b), b)
  BY <1>1, AddLaws
<1> QED BY <1>1, <1>2, <1>3

-----------------------------------------------------------------------------
(***************************************************************************)
(* P is prime: there are no zero divisors, so every unit has an inverse.   *)
(***************************************************************************)

LEMMA NoZeroDivisors ==
  \A a, b \in Field : Mul(a, b) = 0 => a = 0 \/ b = 0
BY PrimeAssumption DEF Field, Mul

LEMMA Cancels ==
  ASSUME NEW a \in Field, a # 0, NEW b \in Field, NEW c \in Field,
         Mul(a, b) = Mul(a, c)
  PROVE  b = c
<1>1. Mul(a, b) \in Field /\ Mul(a, c) \in Field /\ Sub(b, c) \in Field
  BY Closed
<1>2. Mul(a, Sub(b, c)) = 0
  BY <1>1, Distributes, SubLaws
<1> QED BY <1>1, <1>2, NoZeroDivisors, SubLaws

\* Multiplication by a unit permutes the units, so it reaches 1.
LEMMA InverseExists ==
  ASSUME NEW a \in Field, a # 0
  PROVE  \E b \in Field : Mul(a, b) = 1
<1> DEFINE Units == 1 .. P - 1
           f == [x \in Units |-> Mul(a, x)]
<1>1. \A x \in Units : x \in Field /\ x # 0
  BY ModulusIsNat DEF Field
<1>2. \A x \in Units : Mul(a, x) \in Units
  <2> TAKE x \in Units
  <2>1. Mul(a, x) \in Field /\ Mul(a, x) # 0
    BY <1>1, Closed, NoZeroDivisors
  <2> QED BY <2>1, ModulusIsNat DEF Field
<1>3. \A x, y \in Units : Mul(a, x) = Mul(a, y) => x = y
  BY <1>1, Cancels
<1>4. f \in Injection(Units, Units)
  <2>1. f \in [Units -> Units]
    BY <1>2
  <2>2. \A x, y \in Units : f[x] = f[y] => x = y
    BY <1>3
  <2> HIDE DEF f, Units
  <2> QED BY <2>1, <2>2 DEF Injection, IsInjective
<1>5. IsFiniteSet(Units)
  BY ModulusIsNat, FS_Interval
<1>6. f \in Surjection(Units, Units)
  <2> HIDE DEF f, Units
  <2> QED BY <1>4, <1>5, FS_Injection
<1>7. 1 \in Units
  BY ModulusIsNat
<1>8. PICK b \in Units : f[b] = 1
  BY <1>6, <1>7 DEF Surjection
<1> QED BY <1>1, <1>8

LEMMA InverseLaws ==
  \A a \in Field \ {0} :
    Inv(a) \in Field /\ Inv(a) # 0 /\ Mul(a, Inv(a)) = 1 /\ Mul(Inv(a), a) = 1
<1> TAKE a \in Field \ {0}
<1>1. a \in 1 .. P - 1
  BY ModulusIsNat DEF Field
<1>2. Inv(a) = CHOOSE b \in Field : Mul(a, b) = 1
  BY <1>1 DEF Inv, Inverses
<1>3. \E b \in Field : Mul(a, b) = 1
  BY InverseExists
<1>4. Inv(a) \in Field /\ Mul(a, Inv(a)) = 1
  BY <1>2, <1>3
<1> QED BY <1>4, MulLaws, Closed

-----------------------------------------------------------------------------
(***************************************************************************)
(* Sums and products over an index: their recursive functions exist, so    *)
(* that they can be unfolded.                                              *)
(***************************************************************************)

IsSum(g, f, n) == g = [i \in 0 .. n |-> IF i = 0 THEN 0 ELSE Add(g[i - 1], f[i])]

LEMMA SumExists == ASSUME NEW f PROVE \A n \in Nat : \E g : IsSum(g, f, n)
<1> DEFINE S == {n \in Nat : \E g : IsSum(g, f, n)}
<1>1. 0 \in S
  <2> DEFINE g == [i \in 0 .. 0 |-> 0]
  <2>1. IsSum(g, f, 0)
    BY DEF IsSum
  <2> QED BY <2>1
<1>2. ASSUME NEW n \in Nat, n \in S PROVE n + 1 \in S
  <2>1. PICK g : IsSum(g, f, n)
    BY <1>2
  <2> DEFINE h == [i \in 0 .. n + 1 |-> IF i = n + 1 THEN Add(g[n], f[n + 1]) ELSE g[i]]
  <2>2. \A i \in 0 .. n : g[i] = IF i = 0 THEN 0 ELSE Add(g[i - 1], f[i])
    BY <2>1 DEF IsSum
  <2>3. ASSUME NEW i \in 0 .. n + 1
        PROVE  h[i] = IF i = 0 THEN 0 ELSE Add(h[i - 1], f[i])
    <3>1. CASE i = n + 1
      BY <3>1
    <3>2. CASE i # n + 1
      BY <2>2, <3>2
    <3> QED BY <3>1, <3>2
  <2>4. h = [i \in 0 .. n + 1 |-> h[i]]
    OBVIOUS
  <2> HIDE DEF h
  <2>5. IsSum(h, f, n + 1)
    BY <2>3, <2>4 DEF IsSum
  <2> QED BY <2>5
<1> HIDE DEF S
<1>3. Nat \subseteq S
  BY <1>1, <1>2, Induction
<1> QED BY <1>3 DEF S

LEMMA SumPrefix ==
  ASSUME NEW f, NEW n \in Nat, NEW m \in Nat, NEW g, NEW h,
         IsSum(g, f, n), IsSum(h, f, m)
  PROVE  \A k \in Nat : k <= n /\ k <= m => g[k] = h[k]
<1> DEFINE S == {k \in Nat : k <= n /\ k <= m => g[k] = h[k]}
<1>1. /\ \A i \in 0 .. n : g[i] = IF i = 0 THEN 0 ELSE Add(g[i - 1], f[i])
      /\ \A i \in 0 .. m : h[i] = IF i = 0 THEN 0 ELSE Add(h[i - 1], f[i])
  BY DEF IsSum
<1>2. 0 \in S
  BY <1>1
<1>3. \A k \in Nat : k \in S => k + 1 \in S
  BY <1>1
<1> HIDE DEF S
<1>4. Nat \subseteq S
  BY <1>2, <1>3, Induction
<1> QED BY <1>4 DEF S

LEMMA SumIs == ASSUME NEW f, NEW n \in Nat
               PROVE  \E g : IsSum(g, f, n) /\ SumTo(f, n) = g[n]
<1> DEFINE g == CHOOSE g : IsSum(g, f, n)
<1>1. IsSum(g, f, n)
  BY SumExists
<1>2. SumTo(f, n) = g[n]
  BY DEF SumTo, IsSum
<1> QED BY <1>1, <1>2

\* SumTo(f, n) is f[1] + ... + f[n].
LEMMA SumUnfolds ==
  ASSUME NEW f
  PROVE  /\ SumTo(f, 0) = 0
         /\ \A n \in Nat : SumTo(f, n + 1) = Add(SumTo(f, n), f[n + 1])
<1>1. SumTo(f, 0) = 0
  <2>1. PICK g : IsSum(g, f, 0) /\ SumTo(f, 0) = g[0]
    BY SumIs
  <2> QED BY <2>1 DEF IsSum
<1>2. ASSUME NEW n \in Nat
      PROVE  SumTo(f, n + 1) = Add(SumTo(f, n), f[n + 1])
  <2>1. PICK g : IsSum(g, f, n) /\ SumTo(f, n) = g[n]
    BY SumIs
  <2>2. PICK h : IsSum(h, f, n + 1) /\ SumTo(f, n + 1) = h[n + 1]
    BY SumIs
  <2>3. h[n + 1] = Add(h[n], f[n + 1])
    BY <2>2 DEF IsSum
  <2>4. g[n] = h[n]
    BY <2>1, <2>2, SumPrefix
  <2> QED BY <2>1, <2>2, <2>3, <2>4
<1> QED BY <1>1, <1>2

IsProduct(g, f, n) == g = [i \in 0 .. n |-> IF i = 0 THEN 1 ELSE Mul(g[i - 1], f[i])]

LEMMA ProductExists == ASSUME NEW f PROVE \A n \in Nat : \E g : IsProduct(g, f, n)
<1> DEFINE S == {n \in Nat : \E g : IsProduct(g, f, n)}
<1>1. 0 \in S
  <2> DEFINE g == [i \in 0 .. 0 |-> 1]
  <2>1. IsProduct(g, f, 0)
    BY DEF IsProduct
  <2> QED BY <2>1
<1>2. ASSUME NEW n \in Nat, n \in S PROVE n + 1 \in S
  <2>1. PICK g : IsProduct(g, f, n)
    BY <1>2
  <2> DEFINE h == [i \in 0 .. n + 1 |-> IF i = n + 1 THEN Mul(g[n], f[n + 1]) ELSE g[i]]
  <2>2. \A i \in 0 .. n : g[i] = IF i = 0 THEN 1 ELSE Mul(g[i - 1], f[i])
    BY <2>1 DEF IsProduct
  <2>3. ASSUME NEW i \in 0 .. n + 1
        PROVE  h[i] = IF i = 0 THEN 1 ELSE Mul(h[i - 1], f[i])
    <3>1. CASE i = n + 1
      BY <3>1
    <3>2. CASE i # n + 1
      BY <2>2, <3>2
    <3> QED BY <3>1, <3>2
  <2>4. h = [i \in 0 .. n + 1 |-> h[i]]
    OBVIOUS
  <2> HIDE DEF h
  <2>5. IsProduct(h, f, n + 1)
    BY <2>3, <2>4 DEF IsProduct
  <2> QED BY <2>5
<1> HIDE DEF S
<1>3. Nat \subseteq S
  BY <1>1, <1>2, Induction
<1> QED BY <1>3 DEF S

LEMMA ProductPrefix ==
  ASSUME NEW f, NEW n \in Nat, NEW m \in Nat, NEW g, NEW h,
         IsProduct(g, f, n), IsProduct(h, f, m)
  PROVE  \A k \in Nat : k <= n /\ k <= m => g[k] = h[k]
<1> DEFINE S == {k \in Nat : k <= n /\ k <= m => g[k] = h[k]}
<1>1. /\ \A i \in 0 .. n : g[i] = IF i = 0 THEN 1 ELSE Mul(g[i - 1], f[i])
      /\ \A i \in 0 .. m : h[i] = IF i = 0 THEN 1 ELSE Mul(h[i - 1], f[i])
  BY DEF IsProduct
<1>2. 0 \in S
  BY <1>1
<1>3. \A k \in Nat : k \in S => k + 1 \in S
  BY <1>1
<1> HIDE DEF S
<1>4. Nat \subseteq S
  BY <1>2, <1>3, Induction
<1> QED BY <1>4 DEF S

LEMMA ProductIs == ASSUME NEW f, NEW n \in Nat
               PROVE  \E g : IsProduct(g, f, n) /\ ProductTo(f, n) = g[n]
<1> DEFINE g == CHOOSE g : IsProduct(g, f, n)
<1>1. IsProduct(g, f, n)
  BY ProductExists
<1>2. ProductTo(f, n) = g[n]
  BY DEF ProductTo, IsProduct
<1> QED BY <1>1, <1>2

\* ProductTo(f, n) is f[1] * ... * f[n].
LEMMA ProductUnfolds ==
  ASSUME NEW f
  PROVE  /\ ProductTo(f, 0) = 1
         /\ \A n \in Nat : ProductTo(f, n + 1) = Mul(ProductTo(f, n), f[n + 1])
<1>1. ProductTo(f, 0) = 1
  <2>1. PICK g : IsProduct(g, f, 0) /\ ProductTo(f, 0) = g[0]
    BY ProductIs
  <2> QED BY <2>1 DEF IsProduct
<1>2. ASSUME NEW n \in Nat
      PROVE  ProductTo(f, n + 1) = Mul(ProductTo(f, n), f[n + 1])
  <2>1. PICK g : IsProduct(g, f, n) /\ ProductTo(f, n) = g[n]
    BY ProductIs
  <2>2. PICK h : IsProduct(h, f, n + 1) /\ ProductTo(f, n + 1) = h[n + 1]
    BY ProductIs
  <2>3. h[n + 1] = Mul(h[n], f[n + 1])
    BY <2>2 DEF IsProduct
  <2>4. g[n] = h[n]
    BY <2>1, <2>2, ProductPrefix
  <2> QED BY <2>1, <2>2, <2>3, <2>4
<1> QED BY <1>1, <1>2

\* Induction up to a bound.
LEMMA InductionUpTo ==
  ASSUME NEW n \in Nat, NEW S, 0 \in S, \A k \in 0 .. n - 1 : k \in S => k + 1 \in S
  PROVE  0 .. n \subseteq S
<1> DEFINE T == {k \in Nat : k <= n => k \in S}
<1>1. 0 \in T
  OBVIOUS
<1>2. \A k \in Nat : k \in T => k + 1 \in T
  OBVIOUS
<1> HIDE DEF T
<1>3. Nat \subseteq T
  BY <1>1, <1>2, Induction
<1> QED BY <1>3 DEF T

-----------------------------------------------------------------------------
(***************************************************************************)
(* The algebra of sums.                                                    *)
(***************************************************************************)

LEMMA SumInField ==
  ASSUME NEW f, NEW n \in Nat, \A i \in 1 .. n : f[i] \in Field
  PROVE  SumTo(f, n) \in Field
<1> DEFINE S == {k \in 0 .. n : SumTo(f, k) \in Field}
<1>1. 0 \in S
  BY SumUnfolds, Closed
<1>2. ASSUME NEW k \in 0 .. n - 1, k \in S PROVE k + 1 \in S
  <2>1. SumTo(f, k + 1) = Add(SumTo(f, k), f[k + 1])
    BY SumUnfolds
  <2> QED BY <1>2, <2>1, Closed
<1> HIDE DEF S
<1>3. 0 .. n \subseteq S
  BY <1>1, <1>2, InductionUpTo
<1> QED BY <1>3 DEF S

LEMMA SameSum ==
  ASSUME NEW f, NEW g, NEW n \in Nat, \A i \in 1 .. n : f[i] = g[i]
  PROVE  SumTo(f, n) = SumTo(g, n)
<1> DEFINE S == {k \in 0 .. n : SumTo(f, k) = SumTo(g, k)}
<1>1. 0 \in S
  BY SumUnfolds
<1>2. ASSUME NEW k \in 0 .. n - 1, k \in S PROVE k + 1 \in S
  <2>1. /\ SumTo(f, k + 1) = Add(SumTo(f, k), f[k + 1])
        /\ SumTo(g, k + 1) = Add(SumTo(g, k), g[k + 1])
    BY SumUnfolds
  <2> QED BY <1>2, <2>1
<1> HIDE DEF S
<1>3. 0 .. n \subseteq S
  BY <1>1, <1>2, InductionUpTo
<1> QED BY <1>3 DEF S

LEMMA AddExchange ==
  \A a, b, c, d \in Field : Add(Add(a, b), Add(c, d)) = Add(Add(a, c), Add(b, d))
<1> SUFFICES ASSUME NEW a \in Field, NEW b \in Field, NEW c \in Field, NEW d \in Field
             PROVE  Add(Add(a, b), Add(c, d)) = Add(Add(a, c), Add(b, d))
  OBVIOUS
<1>1. Add(b, Add(c, d)) = Add(c, Add(b, d))
  <2>1. Add(b, Add(c, d)) = Add(Add(b, c), d)
    BY AddLaws
  <2>2. Add(c, Add(b, d)) = Add(Add(c, b), d)
    BY AddLaws
  <2> QED BY <2>1, <2>2, AddLaws
<1>2. Add(c, d) \in Field /\ Add(b, d) \in Field
  BY Closed
<1>3. Add(Add(a, b), Add(c, d)) = Add(a, Add(b, Add(c, d)))
  BY <1>2, AddLaws
<1>4. Add(Add(a, c), Add(b, d)) = Add(a, Add(c, Add(b, d)))
  BY <1>2, AddLaws
<1> QED BY <1>1, <1>3, <1>4

LEMMA SumOfSums ==
  ASSUME NEW f, NEW g, NEW h, NEW n \in Nat,
         \A i \in 1 .. n : f[i] \in Field /\ g[i] \in Field /\ h[i] = Add(f[i], g[i])
  PROVE  SumTo(h, n) = Add(SumTo(f, n), SumTo(g, n))
<1> DEFINE S == {k \in 0 .. n : SumTo(h, k) = Add(SumTo(f, k), SumTo(g, k))}
<1>1. 0 \in S
  BY SumUnfolds, AddLaws, Closed
<1>2. ASSUME NEW k \in 0 .. n - 1, k \in S PROVE k + 1 \in S
  <2>1. /\ SumTo(f, k + 1) = Add(SumTo(f, k), f[k + 1])
        /\ SumTo(g, k + 1) = Add(SumTo(g, k), g[k + 1])
        /\ SumTo(h, k + 1) = Add(SumTo(h, k), h[k + 1])
    BY SumUnfolds
  <2>2. SumTo(f, k) \in Field /\ SumTo(g, k) \in Field
    BY SumInField
  <2>3. f[k + 1] \in Field /\ g[k + 1] \in Field /\ h[k + 1] = Add(f[k + 1], g[k + 1])
    OBVIOUS
  <2>4. Add(Add(SumTo(f, k), SumTo(g, k)), Add(f[k + 1], g[k + 1]))
          = Add(Add(SumTo(f, k), f[k + 1]), Add(SumTo(g, k), g[k + 1]))
    BY <2>2, <2>3, AddExchange
  <2> QED BY <1>2, <2>1, <2>3, <2>4
<1> HIDE DEF S
<1>3. 0 .. n \subseteq S
  BY <1>1, <1>2, InductionUpTo
<1> QED BY <1>3 DEF S

LEMMA SumScaled ==
  ASSUME NEW f, NEW h, NEW c \in Field, NEW n \in Nat,
         \A i \in 1 .. n : f[i] \in Field /\ h[i] = Mul(c, f[i])
  PROVE  SumTo(h, n) = Mul(c, SumTo(f, n))
<1> DEFINE S == {k \in 0 .. n : SumTo(h, k) = Mul(c, SumTo(f, k))}
<1>1. 0 \in S
  BY SumUnfolds, MulLaws, Closed
<1>2. ASSUME NEW k \in 0 .. n - 1, k \in S PROVE k + 1 \in S
  <2>1. /\ SumTo(f, k + 1) = Add(SumTo(f, k), f[k + 1])
        /\ SumTo(h, k + 1) = Add(SumTo(h, k), h[k + 1])
    BY SumUnfolds
  <2>2. SumTo(f, k) \in Field
    BY SumInField
  <2>3. f[k + 1] \in Field /\ h[k + 1] = Mul(c, f[k + 1])
    OBVIOUS
  <2>4. Mul(c, Add(SumTo(f, k), f[k + 1])) = Add(Mul(c, SumTo(f, k)), Mul(c, f[k + 1]))
    BY <2>2, <2>3, Distributes
  <2> QED BY <1>2, <2>1, <2>3, <2>4
<1> HIDE DEF S
<1>3. 0 .. n \subseteq S
  BY <1>1, <1>2, InductionUpTo
<1> QED BY <1>3 DEF S

\* The first term can be split off as well as the last.
LEMMA SumFirst ==
  ASSUME NEW f, NEW g, NEW n \in Nat,
         \A i \in 1 .. n + 1 : f[i] \in Field,
         \A i \in 1 .. n : g[i] = f[i + 1]
  PROVE  SumTo(f, n + 1) = Add(f[1], SumTo(g, n))
<1> DEFINE S == {k \in 0 .. n : SumTo(f, k + 1) = Add(f[1], SumTo(g, k))}
<1>0. f[1] \in Field
  OBVIOUS
<1>1. 0 \in S
  <2>1. SumTo(f, 0 + 1) = Add(SumTo(f, 0), f[0 + 1])
    BY SumUnfolds
  <2> QED BY <1>0, <2>1, SumUnfolds, AddLaws, Closed
<1>2. ASSUME NEW k \in 0 .. n - 1, k \in S PROVE k + 1 \in S
  <2>1. /\ SumTo(f, k + 1 + 1) = Add(SumTo(f, k + 1), f[k + 1 + 1])
        /\ SumTo(g, k + 1) = Add(SumTo(g, k), g[k + 1])
    BY SumUnfolds
  <2>2. SumTo(g, k) \in Field
    BY SumInField
  <2>3. f[k + 1 + 1] \in Field /\ g[k + 1] = f[k + 1 + 1]
    OBVIOUS
  <2>4. Add(Add(f[1], SumTo(g, k)), g[k + 1]) = Add(f[1], Add(SumTo(g, k), g[k + 1]))
    BY <1>0, <2>2, <2>3, AddLaws
  <2> QED BY <1>2, <2>1, <2>3, <2>4
<1> HIDE DEF S
<1>3. 0 .. n \subseteq S
  BY <1>1, <1>2, InductionUpTo
<1> QED BY <1>3 DEF S

-----------------------------------------------------------------------------
(***************************************************************************)
(* The algebra of products and powers.                                     *)
(***************************************************************************)

LEMMA ProductInField ==
  ASSUME NEW f, NEW n \in Nat, \A i \in 1 .. n : f[i] \in Field
  PROVE  ProductTo(f, n) \in Field
<1> DEFINE S == {k \in 0 .. n : ProductTo(f, k) \in Field}
<1>1. 0 \in S
  BY ProductUnfolds, Closed
<1>2. ASSUME NEW k \in 0 .. n - 1, k \in S PROVE k + 1 \in S
  <2>1. ProductTo(f, k + 1) = Mul(ProductTo(f, k), f[k + 1])
    BY ProductUnfolds
  <2> QED BY <1>2, <2>1, Closed
<1> HIDE DEF S
<1>3. 0 .. n \subseteq S
  BY <1>1, <1>2, InductionUpTo
<1> QED BY <1>3 DEF S

LEMMA SameProduct ==
  ASSUME NEW f, NEW g, NEW n \in Nat, \A i \in 1 .. n : f[i] = g[i]
  PROVE  ProductTo(f, n) = ProductTo(g, n)
<1> DEFINE S == {k \in 0 .. n : ProductTo(f, k) = ProductTo(g, k)}
<1>1. 0 \in S
  BY ProductUnfolds
<1>2. ASSUME NEW k \in 0 .. n - 1, k \in S PROVE k + 1 \in S
  <2>1. /\ ProductTo(f, k + 1) = Mul(ProductTo(f, k), f[k + 1])
        /\ ProductTo(g, k + 1) = Mul(ProductTo(g, k), g[k + 1])
    BY ProductUnfolds
  <2> QED BY <1>2, <2>1
<1> HIDE DEF S
<1>3. 0 .. n \subseteq S
  BY <1>1, <1>2, InductionUpTo
<1> QED BY <1>3 DEF S

LEMMA ProductFirst ==
  ASSUME NEW f, NEW g, NEW n \in Nat,
         \A i \in 1 .. n + 1 : f[i] \in Field,
         \A i \in 1 .. n : g[i] = f[i + 1]
  PROVE  ProductTo(f, n + 1) = Mul(f[1], ProductTo(g, n))
<1> DEFINE S == {k \in 0 .. n : ProductTo(f, k + 1) = Mul(f[1], ProductTo(g, k))}
<1>0. f[1] \in Field
  OBVIOUS
<1>1. 0 \in S
  <2>1. ProductTo(f, 0 + 1) = Mul(ProductTo(f, 0), f[0 + 1])
    BY ProductUnfolds
  <2> QED BY <1>0, <2>1, ProductUnfolds, MulLaws, Closed
<1>2. ASSUME NEW k \in 0 .. n - 1, k \in S PROVE k + 1 \in S
  <2>1. /\ ProductTo(f, k + 1 + 1) = Mul(ProductTo(f, k + 1), f[k + 1 + 1])
        /\ ProductTo(g, k + 1) = Mul(ProductTo(g, k), g[k + 1])
    BY ProductUnfolds
  <2>2. ProductTo(g, k) \in Field
    BY ProductInField
  <2>3. f[k + 1 + 1] \in Field /\ g[k + 1] = f[k + 1 + 1]
    OBVIOUS
  <2>4. Mul(Mul(f[1], ProductTo(g, k)), g[k + 1]) = Mul(f[1], Mul(ProductTo(g, k), g[k + 1]))
    BY <1>0, <2>2, <2>3, MulLaws
  <2> QED BY <1>2, <2>1, <2>3, <2>4
<1> HIDE DEF S
<1>3. 0 .. n \subseteq S
  BY <1>1, <1>2, InductionUpTo
<1> QED BY <1>3 DEF S

LEMMA PowerUnfolds ==
  ASSUME NEW a \in Field
  PROVE  /\ Power(a, 0) = 1
         /\ \A n \in Nat : Power(a, n) \in Field
         /\ \A n \in Nat : Power(a, n + 1) = Mul(Power(a, n), a)
<1>1. Power(a, 0) = 1
  BY ProductUnfolds DEF Power
<1>2. ASSUME NEW n \in Nat
      PROVE  Power(a, n) \in Field
  BY ProductInField DEF Power
<1>3. ASSUME NEW n \in Nat
      PROVE  Power(a, n + 1) = Mul(Power(a, n), a)
  <2> DEFINE f == [i \in 1 .. n |-> a]
             g == [i \in 1 .. n + 1 |-> a]
  <2>1. Power(a, n) = ProductTo(f, n) /\ Power(a, n + 1) = ProductTo(g, n + 1)
    BY DEF Power
  <2>2. \A i \in 1 .. n : f[i] = g[i]
    OBVIOUS
  <2>3. g[n + 1] = a
    OBVIOUS
  <2> HIDE DEF f, g
  <2>4. ProductTo(g, n + 1) = Mul(ProductTo(g, n), g[n + 1])
    BY ProductUnfolds
  <2> QED BY <2>1, <2>2, <2>3, <2>4, SameProduct
<1> QED BY <1>1, <1>2, <1>3

LEMMA PowerOfSum ==
  ASSUME NEW a \in Field, NEW m \in Nat
  PROVE  \A n \in Nat : Power(a, m + n) = Mul(Power(a, m), Power(a, n))
<1> DEFINE S == {n \in Nat : Power(a, m + n) = Mul(Power(a, m), Power(a, n))}
<1>1. 0 \in S
  BY PowerUnfolds, MulLaws
<1>2. ASSUME NEW n \in Nat, n \in S PROVE n + 1 \in S
  <2>1. Power(a, (m + n) + 1) = Mul(Power(a, m + n), a)
    BY PowerUnfolds
  <2>2. Power(a, n + 1) = Mul(Power(a, n), a)
    BY PowerUnfolds
  <2>3. Power(a, m) \in Field /\ Power(a, n) \in Field
    BY PowerUnfolds
  <2>4. Mul(Mul(Power(a, m), Power(a, n)), a) = Mul(Power(a, m), Mul(Power(a, n), a))
    BY <2>3, MulLaws
  <2>5. m + (n + 1) = (m + n) + 1
    OBVIOUS
  <2> QED BY <1>2, <2>1, <2>2, <2>4, <2>5
<1> HIDE DEF S
<1>3. Nat \subseteq S
  BY <1>1, <1>2, Induction
<1> QED BY <1>3 DEF S

LEMMA PowerNonzero ==
  ASSUME NEW a \in Field, a # 0
  PROVE  \A n \in Nat : Power(a, n) # 0
<1> DEFINE S == {n \in Nat : Power(a, n) # 0}
<1>1. 0 \in S
  BY PowerUnfolds
<1>2. ASSUME NEW n \in Nat, n \in S PROVE n + 1 \in S
  BY <1>2, PowerUnfolds, NoZeroDivisors
<1> HIDE DEF S
<1>3. Nat \subseteq S
  BY <1>1, <1>2, Induction
<1> QED BY <1>3 DEF S

-----------------------------------------------------------------------------
(***************************************************************************)
(* The evaluation domain: its size is a number that is large enough, and   *)
(* its points differ.                                                      *)
(***************************************************************************)

LEMMA PowerOfTwo == \A k \in Nat : 2^k \in Nat /\ 2^k >= k
<1> SUFFICES ASSUME NEW k \in Nat PROVE 2^k \in Nat /\ 2^k >= k
  OBVIOUS
<1> DEFINE S == 1 .. k
           f == [i \in S |-> {i}]
<1>1. IsFiniteSet(S) /\ Cardinality(S) = k
  BY FS_Interval
<1>2. f \in Injection(S, SUBSET S)
  <2>1. f \in [S -> SUBSET S] /\ \A i, j \in S : f[i] = f[j] => i = j
    OBVIOUS
  <2> HIDE DEF f, S
  <2> QED BY <2>1 DEF Injection, IsInjective
<1> HIDE DEF S, f
<1>3. IsFiniteSet(SUBSET S) /\ Cardinality(SUBSET S) = 2^k
  BY <1>1, FS_SUBSET
<1>4. Cardinality(SUBSET S) \in Nat
  BY <1>3, FS_CardinalityType
<1>5. Cardinality(S) <= Cardinality(SUBSET S)
  BY <1>2, <1>3, FS_Injection
<1> QED BY <1>1, <1>3, <1>4, <1>5

\* A set of numbers that is not empty has a least member.
LEMMA Least ==
  ASSUME NEW S \in SUBSET Nat, S # {}
  PROVE  \E x \in S : \A y \in S : x <= y
<1>1. PICK x \in S : \A y \in S : ~(<<y, x>> \in Smaller)
  BY SmallerIsWellFounded, WFMin
<1>2. ASSUME NEW y \in S PROVE x <= y
  <2>1. <<y, x>> \in Nat \X Nat
    OBVIOUS
  <2>2. ~(<<y, x>>[1] < <<y, x>>[2])
    BY <1>1, <2>1 DEF Smaller
  <2>3. <<y, x>>[1] = y /\ <<y, x>>[2] = x
    OBVIOUS
  <2> QED BY <2>1, <2>2, <2>3
<1> QED BY <1>2

LEMMA DomainSize ==
  ASSUME NEW n \in Nat
  PROVE  /\ DomainSizeFor(n) \in Nat /\ DomainSizeFor(n) >= n
         /\ \E k \in 0 .. n : DomainSizeFor(n) = 2^k
<1> DEFINE Sizes == {2^k : k \in 0 .. n}
           Large == {s \in Sizes : s >= n}
<1>1. Sizes \subseteq Nat
  BY PowerOfTwo
<1>2. 2^n \in Large
  BY PowerOfTwo
<1>3. PICK s \in Large : \A t \in Large : s <= t
  <2>1. Large \in SUBSET Nat /\ Large # {}
    BY <1>1, <1>2
  <2> HIDE DEF Large
  <2> QED BY <2>1, Least
<1>4. \A k \in 0 .. n : 2^k >= n => s <= 2^k
  <2> TAKE k \in 0 .. n
  <2> HAVE 2^k >= n
  <2>1. 2^k \in Large
    OBVIOUS
  <2> QED BY <1>3, <2>1
<1>5. \E t \in Sizes : t >= n /\ \A k \in 0 .. n : 2^k >= n => t <= 2^k
  BY <1>3, <1>4
<1>6. DomainSizeFor(n) \in Sizes /\ DomainSizeFor(n) >= n
  <2> DEFINE d == DomainSizeFor(n)
  <2>1. d = CHOOSE t \in Sizes : t >= n /\ \A k \in 0 .. n : 2^k >= n => t <= 2^k
    BY DEF DomainSizeFor
  <2> HIDE DEF d, Sizes
  <2>2. d \in Sizes /\ d >= n
    BY <1>5, <2>1
  <2> QED BY <2>2 DEF d
<1> QED BY <1>1, <1>6

\* The powers of a primitive root of order s below s differ.
LEMMA RootPowersDiffer ==
  ASSUME NEW s \in Nat, NEW w \in Field, PrimitiveRoot(w, s),
         NEW i \in 0 .. s - 1, NEW j \in 0 .. s - 1, Power(w, i) = Power(w, j)
  PROVE  i = j
<1>0. w # 0
  <2> SUFFICES ASSUME w = 0 PROVE FALSE
    OBVIOUS
  <2>1. s - 1 \in Nat /\ s = (s - 1) + 1
    OBVIOUS
  <2>2. Power(w, s) = Mul(Power(w, s - 1), w) /\ Power(w, s - 1) \in Field
    BY <2>1, PowerUnfolds
  <2>3. Mul(Power(w, s - 1), 0) = 0
    BY <2>2, MulLaws
  <2> QED BY <2>2, <2>3 DEF PrimitiveRoot
<1>1. ASSUME NEW a \in 0 .. s - 1, NEW b \in 0 .. s - 1, a < b, Power(w, a) = Power(w, b)
      PROVE  FALSE
  <2>1. b - a \in 1 .. s - 1 /\ b - a \in Nat /\ a \in Nat /\ b = a + (b - a)
    BY <1>1
  <2>2. Power(w, b) = Mul(Power(w, a), Power(w, b - a))
    BY <2>1, PowerOfSum
  <2>3. Power(w, a) \in Field /\ Power(w, a) # 0 /\ Power(w, b - a) \in Field
    BY <1>0, <2>1, PowerUnfolds, PowerNonzero
  <2>4. Mul(Power(w, a), 1) = Mul(Power(w, a), Power(w, b - a))
    BY <1>1, <2>2, <2>3, MulLaws
  <2>5. Power(w, b - a) = 1
    BY <2>3, <2>4, Cancels, Closed
  <2> QED BY <2>1, <2>5 DEF PrimitiveRoot
<1> QED BY <1>1

-----------------------------------------------------------------------------
(***************************************************************************)
(* Polynomials.                                                            *)
(***************************************************************************)

LEMMA PolynomialLength ==
  ASSUME NEW n \in Nat, NEW p \in Polynomials(n)
  PROVE  Len(p) = n /\ \A i \in 1 .. n : p[i] \in Field
<1>1. p \in Seq(Field) /\ Len(p) = n
  BY DEF Polynomials
<1> QED BY <1>1 DEF Polynomials

LEMMA EvaluateInField ==
  ASSUME NEW n \in Nat, NEW p \in Polynomials(n), NEW x \in Field
  PROVE  Evaluate(p, x) \in Field
<1> DEFINE f == [i \in 1 .. n |-> Mul(p[i], Power(x, i - 1))]
<1>1. Evaluate(p, x) = SumTo(f, n)
  BY PolynomialLength DEF Evaluate
<1>2. ASSUME NEW i \in 1 .. n PROVE f[i] \in Field
  <2>1. i - 1 \in Nat /\ p[i] \in Field
    BY PolynomialLength
  <2>2. Power(x, i - 1) \in Field
    BY <2>1, PowerUnfolds
  <2> QED BY <2>1, <2>2, Closed
<1> HIDE DEF f
<1> QED BY <1>1, <1>2, SumInField

LEMMA EmptyPolynomial ==
  ASSUME NEW p \in Polynomials(0), NEW x \in Field
  PROVE  Evaluate(p, x) = 0
BY PolynomialLength, SumUnfolds DEF Evaluate

\* The coefficients after the first.
Shifted(p, n) == [i \in 1 .. n |-> p[i + 1]]

\* Horner's step.
LEMMA EvaluateStep ==
  ASSUME NEW n \in Nat, NEW p \in Polynomials(n + 1), NEW x \in Field
  PROVE  /\ Shifted(p, n) \in Polynomials(n)
         /\ p[1] \in Field
         /\ Evaluate(p, x) = Add(p[1], Mul(x, Evaluate(Shifted(p, n), x)))
<1> DEFINE q == Shifted(p, n)
           f == [i \in 1 .. n + 1 |-> Mul(p[i], Power(x, i - 1))]
           g == [i \in 1 .. n |-> Mul(q[i], Power(x, i - 1))]
           h == [i \in 1 .. n |-> f[i + 1]]
<1>1. \A i \in 1 .. n + 1 : p[i] \in Field
  BY PolynomialLength
<1>2. q \in Polynomials(n) /\ \A i \in 1 .. n : q[i] = p[i + 1] /\ q[i] \in Field
  BY <1>1 DEF Polynomials, Shifted
<1>3. Evaluate(p, x) = SumTo(f, n + 1)
  BY PolynomialLength DEF Evaluate
<1>4. Evaluate(q, x) = SumTo(g, n)
  <2> HIDE DEF q
  <2> QED BY <1>2, PolynomialLength DEF Evaluate
<1>5. \A i \in 1 .. n + 1 : f[i] \in Field
  <2> TAKE i \in 1 .. n + 1
  <2>1. i - 1 \in Nat
    OBVIOUS
  <2> QED BY <1>1, <2>1, PowerUnfolds, Closed
<1>6. f[1] = p[1]
  <2>1. f[1] = Mul(p[1], Power(x, 0))
    OBVIOUS
  <2>2. p[1] \in Field
    BY <1>1
  <2> QED BY <2>1, <2>2, PowerUnfolds, MulLaws
<1>7. \A i \in 1 .. n : g[i] \in Field /\ h[i] = Mul(x, g[i])
  <2> TAKE i \in 1 .. n
  <2> DEFINE e == Power(x, i - 1)
  <2>1. i - 1 \in Nat /\ (i - 1) + 1 = i
    OBVIOUS
  <2>2. e \in Field /\ Power(x, i) = Mul(e, x)
    BY <2>1, PowerUnfolds
  <2>3. h[i] = Mul(q[i], Power(x, i)) /\ g[i] = Mul(q[i], e) /\ q[i] \in Field
    BY <1>2
  <2> HIDE DEF e, g, h, q
  <2>4. Mul(q[i], e) \in Field
    BY <2>2, <2>3, Closed
  <2>5. Mul(Mul(q[i], e), x) = Mul(q[i], Mul(e, x))
    BY <2>2, <2>3, MulLaws
  <2>6. Mul(Mul(q[i], e), x) = Mul(x, Mul(q[i], e))
    BY <2>4, MulLaws
  <2> QED BY <2>2, <2>3, <2>4, <2>5, <2>6
<1>8. SumTo(f, n + 1) = Add(f[1], SumTo(h, n))
  <2>1. \A i \in 1 .. n : h[i] = f[i + 1]
    OBVIOUS
  <2> HIDE DEF f, h
  <2> QED BY <1>5, <2>1, SumFirst
<1>9. SumTo(h, n) = Mul(x, SumTo(g, n))
  <2> HIDE DEF g, h
  <2> QED BY <1>7, SumScaled
<1> QED BY <1>1, <1>2, <1>3, <1>4, <1>6, <1>8, <1>9

\* The value at 0 is the first coefficient.
LEMMA EvaluateAtZero ==
  ASSUME NEW n \in Nat \ {0}, NEW p \in Polynomials(n)
  PROVE  Evaluate(p, 0) = p[1]
<1>1. n - 1 \in Nat /\ p \in Polynomials((n - 1) + 1)
  OBVIOUS
<1>2. /\ Shifted(p, n - 1) \in Polynomials(n - 1)
      /\ p[1] \in Field
      /\ Evaluate(p, 0) = Add(p[1], Mul(0, Evaluate(Shifted(p, n - 1), 0)))
  BY <1>1, EvaluateStep, Closed
<1>3. Evaluate(Shifted(p, n - 1), 0) \in Field
  BY <1>1, <1>2, EvaluateInField, Closed
<1> QED BY <1>2, <1>3, MulLaws, AddLaws

\* p(x) = p(a) + (x - a) q(x), where q has one coefficient less and, if it has
\* any, the same leading one.
Divides(q, p, a) ==
    \A x \in Field : Evaluate(p, x) = Add(Evaluate(p, a), Mul(Sub(x, a), Evaluate(q, x)))

\* One step of the division: c + x (v + (x - a) s) with the quotient regrouped.
Regrouped(c, a, x, v, s) ==
    Add(c, Mul(x, Add(v, Mul(Sub(x, a), s))))
      = Add(Add(c, Mul(a, v)), Mul(Sub(x, a), Add(v, Mul(x, s))))

LEMMA DivisionStep ==
  ASSUME NEW c \in Field, NEW a \in Field, NEW x \in Field,
         NEW v \in Field, NEW s \in Field
  PROVE  Regrouped(c, a, x, v, s)
<1> DEFINE d == Sub(x, a)
<1>1. d \in Field /\ x = Add(a, d)
  BY Differences
<1> HIDE DEF d
<1>2. Mul(x, Mul(d, s)) = Mul(d, Mul(x, s))
  BY <1>1, MulLaws
<1>3. Mul(x, v) = Add(Mul(a, v), Mul(d, v))
  <2>1. Mul(v, Add(a, d)) = Add(Mul(v, a), Mul(v, d))
    BY <1>1, Distributes
  <2> QED BY <1>1, <2>1, MulLaws
<1> DEFINE av == Mul(a, v)
           dv == Mul(d, v)
           xs == Mul(x, s)
           ds == Mul(d, s)
           dxs == Mul(d, xs)
<1>4. av \in Field /\ dv \in Field /\ xs \in Field /\ ds \in Field /\ dxs \in Field
  BY <1>1, Closed
<1>5. Mul(x, Add(v, ds)) = Add(Mul(x, v), Mul(x, ds))
  BY <1>4, Distributes
<1>6. Mul(d, Add(v, xs)) = Add(dv, dxs)
  BY <1>1, <1>4, Distributes
<1>7. Mul(x, Add(v, ds)) = Add(Add(av, dv), dxs)
  BY <1>2, <1>3, <1>5
<1> HIDE DEF av, dv, xs, ds, dxs
<1>8. Add(c, Add(Add(av, dv), dxs)) = Add(Add(c, av), Add(dv, dxs))
  <2>1. Add(dv, dxs) \in Field
    BY <1>4, Closed
  <2>2. Add(Add(av, dv), dxs) = Add(av, Add(dv, dxs))
    BY <1>4, AddLaws
  <2>3. Add(Add(c, av), Add(dv, dxs)) = Add(c, Add(av, Add(dv, dxs)))
    BY <1>4, <2>1, AddLaws
  <2> QED BY <2>2, <2>3
<1> QED BY <1>6, <1>7, <1>8 DEF Regrouped, d, av, ds, xs

LEMMA SyntheticDivision ==
  ASSUME NEW a \in Field
  PROVE  \A n \in Nat : \A p \in Polynomials(n + 1) :
             \E q \in Polynomials(n) :
                Divides(q, p, a) /\ (n = 0 \/ q[n] = p[n + 1])
<1> DEFINE S == {n \in Nat : \A p \in Polynomials(n + 1) :
                                \E q \in Polynomials(n) :
                                   Divides(q, p, a) /\ (n = 0 \/ q[n] = p[n + 1])}
<1>1. 0 \in S
  <2> SUFFICES ASSUME NEW p \in Polynomials(0 + 1)
               PROVE  \E q \in Polynomials(0) : Divides(q, p, a)
    OBVIOUS
  <2> DEFINE q == Shifted(p, 0)
  <2>1. /\ q \in Polynomials(0) /\ p[1] \in Field
        /\ \A x \in Field : Evaluate(p, x) = Add(p[1], Mul(x, Evaluate(q, x)))
    BY EvaluateStep
  <2> HIDE DEF q
  <2>2. \A x \in Field : Evaluate(q, x) = 0
    BY <2>1, EmptyPolynomial
  <2>3. \A x \in Field : Evaluate(p, x) = p[1]
    BY <2>1, <2>2, MulLaws, AddLaws
  <2>4. ASSUME NEW x \in Field
        PROVE  Evaluate(p, x) = Add(Evaluate(p, a), Mul(Sub(x, a), Evaluate(q, x)))
    <3>1. Sub(x, a) \in Field
      BY Closed
    <3>2. Mul(Sub(x, a), 0) = 0
      BY <3>1, MulLaws
    <3> QED BY <2>1, <2>2, <2>3, <3>2, AddLaws
  <2> QED BY <2>1, <2>4 DEF Divides
<1>2. ASSUME NEW n \in Nat, n \in S PROVE n + 1 \in S
  <2> SUFFICES ASSUME NEW p \in Polynomials(n + 1 + 1)
               PROVE  \E q \in Polynomials(n + 1) :
                         Divides(q, p, a) /\ q[n + 1] = p[n + 1 + 1]
    OBVIOUS
  <2> DEFINE t == Shifted(p, n + 1)
  <2>1. /\ t \in Polynomials(n + 1) /\ p[1] \in Field
        /\ \A x \in Field : Evaluate(p, x) = Add(p[1], Mul(x, Evaluate(t, x)))
        /\ t[n + 1] = p[n + 1 + 1]
    BY EvaluateStep DEF Shifted
  <2> HIDE DEF t
  <2>2. PICK s \in Polynomials(n) : Divides(s, t, a) /\ (n = 0 \/ s[n] = t[n + 1])
    BY <1>2, <2>1
  <2> DEFINE v == Evaluate(t, a)
             q == [i \in 1 .. n + 1 |-> IF i = 1 THEN v ELSE s[i - 1]]
  <2>3. v \in Field
    BY <2>1, EvaluateInField
  <2>4. \A i \in 1 .. n : s[i] \in Field
    BY PolynomialLength
  <2> HIDE DEF v
  <2>5. q \in Polynomials(n + 1)
    BY <2>3, <2>4 DEF Polynomials
  <2>6. Shifted(q, n) = s
    <3>1. s = [i \in 1 .. n |-> s[i]]
      BY DEF Polynomials
    <3>2. \A i \in 1 .. n : q[i + 1] = s[i]
      OBVIOUS
    <3> QED BY <3>1, <3>2 DEF Shifted
  <2>7. q[1] = v /\ (n # 0 => q[n + 1] = s[n])
    OBVIOUS
  <2> HIDE DEF q
  <2>8. ASSUME NEW x \in Field
        PROVE  Evaluate(p, x) = Add(Evaluate(p, a), Mul(Sub(x, a), Evaluate(q, x)))
    <3> DEFINE sx == Evaluate(s, x)
    <3>1. sx \in Field
      BY EvaluateInField
    <3>2. Evaluate(q, x) = Add(v, Mul(x, sx))
      BY <2>5, <2>6, <2>7, EvaluateStep
    <3>3. Evaluate(t, x) = Add(v, Mul(Sub(x, a), sx))
      BY <2>2 DEF Divides, v
    <3>4. Evaluate(p, x) = Add(p[1], Mul(x, Evaluate(t, x)))
      BY <2>1
    <3>5. Evaluate(p, a) = Add(p[1], Mul(a, v))
      BY <2>1 DEF v
    <3>0. p[1] \in Field
      BY <2>1
    <3> HIDE DEF sx
    <3>6. Regrouped(p[1], a, x, v, sx)
      BY <2>3, <3>0, <3>1, DivisionStep
    <3> QED BY <3>2, <3>3, <3>4, <3>5, <3>6 DEF Regrouped
  <2>9. q[n + 1] = p[n + 1 + 1]
    <3>1. CASE n = 0
      <4>1. t \in Polynomials(0 + 1) /\ t[1] \in Field
        BY <2>1, <3>1, PolynomialLength
      <4>2. Shifted(t, 0) \in Polynomials(0)
            /\ v = Add(t[1], Mul(a, Evaluate(Shifted(t, 0), a)))
        BY <4>1, EvaluateStep DEF v
      <4>3. Evaluate(Shifted(t, 0), a) = 0
        BY <4>2, EmptyPolynomial
      <4>4. v = t[1]
        BY <4>1, <4>2, <4>3, MulLaws, AddLaws
      <4> QED BY <2>1, <2>7, <3>1, <4>4
    <3>2. CASE n # 0
      BY <2>1, <2>2, <2>7, <3>2
    <3> QED BY <3>1, <3>2
  <2> QED BY <2>5, <2>8, <2>9 DEF Divides
<1> HIDE DEF S
<1>3. Nat \subseteq S
  BY <1>1, <1>2, Induction
<1> QED BY <1>3 DEF S

SumOfPolys(p, q, n) == [i \in 1 .. n |-> Add(p[i], q[i])]

LEMMA EvaluateSumOfPolys ==
  ASSUME NEW n \in Nat, NEW p \in Polynomials(n), NEW q \in Polynomials(n)
  PROVE  /\ SumOfPolys(p, q, n) \in Polynomials(n)
         /\ \A x \in Field : Evaluate(SumOfPolys(p, q, n), x) = Add(Evaluate(p, x), Evaluate(q, x))
<1> DEFINE s == SumOfPolys(p, q, n)
<1>1. \A i \in 1 .. n : p[i] \in Field /\ q[i] \in Field
  BY PolynomialLength
<1>2. s \in Polynomials(n) /\ \A i \in 1 .. n : s[i] = Add(p[i], q[i])
  BY <1>1, Closed DEF SumOfPolys, Polynomials
<1> HIDE DEF s
<1>3. ASSUME NEW x \in Field
      PROVE  Evaluate(s, x) = Add(Evaluate(p, x), Evaluate(q, x))
  <2> DEFINE f == [i \in 1 .. n |-> Mul(p[i], Power(x, i - 1))]
             g == [i \in 1 .. n |-> Mul(q[i], Power(x, i - 1))]
             h == [i \in 1 .. n |-> Mul(s[i], Power(x, i - 1))]
  <2>1. Evaluate(p, x) = SumTo(f, n) /\ Evaluate(q, x) = SumTo(g, n)
        /\ Evaluate(s, x) = SumTo(h, n)
    BY <1>2, PolynomialLength DEF Evaluate
  <2>2. ASSUME NEW i \in 1 .. n
        PROVE  f[i] \in Field /\ g[i] \in Field /\ h[i] = Add(f[i], g[i])
    <3> DEFINE e == Power(x, i - 1)  a == p[i]  b == q[i]
    <3>1. e \in Field /\ a \in Field /\ b \in Field
      <4>1. i - 1 \in Nat
        OBVIOUS
      <4> QED BY <1>1, <4>1, PowerUnfolds
    <3>2. f[i] = Mul(a, e) /\ g[i] = Mul(b, e) /\ h[i] = Mul(Add(a, b), e)
      BY <1>2
    <3> HIDE DEF e, a, b, f, g, h
    <3>3. Mul(a, e) \in Field /\ Mul(b, e) \in Field /\ Add(a, b) \in Field
      BY <3>1, Closed
    <3>4. Mul(e, Add(a, b)) = Add(Mul(e, a), Mul(e, b))
      BY <3>1, Distributes
    <3>5. Mul(e, a) = Mul(a, e) /\ Mul(e, b) = Mul(b, e)
      BY <3>1, MulLaws
    <3>6. Mul(e, Add(a, b)) = Mul(Add(a, b), e)
      BY <3>1, <3>3, MulLaws
    <3> QED BY <3>2, <3>3, <3>4, <3>5, <3>6
  <2> HIDE DEF f, g, h
  <2>3. SumTo(h, n) = Add(SumTo(f, n), SumTo(g, n))
    BY <2>2, SumOfSums
  <2> QED BY <2>1, <2>3
<1> QED BY <1>2, <1>3 DEF s

ZeroPoly(n) == [i \in 1 .. n |-> 0]

LEMMA ZeroPolynomial ==
  ASSUME NEW n \in Nat
  PROVE  ZeroPoly(n) \in Polynomials(n) /\ \A x \in Field : Evaluate(ZeroPoly(n), x) = 0
<1> DEFINE p == ZeroPoly(n)
<1>1. p \in Polynomials(n) /\ \A i \in 1 .. n : p[i] = 0
  BY Closed DEF Polynomials, ZeroPoly
<1> HIDE DEF p
<1>2. ASSUME NEW x \in Field PROVE Evaluate(p, x) = 0
  <2> DEFINE f == [i \in 1 .. n |-> Mul(p[i], Power(x, i - 1))]
             g == [i \in 1 .. n |-> Power(x, i - 1)]
  <2>1. Evaluate(p, x) = SumTo(f, n)
    BY <1>1, PolynomialLength DEF Evaluate
  <2>2. \A i \in 1 .. n : g[i] \in Field /\ f[i] = Mul(0, g[i])
    <3> TAKE i \in 1 .. n
    <3>1. i - 1 \in Nat
      OBVIOUS
    <3> QED BY <1>1, <3>1, PowerUnfolds
  <2> HIDE DEF f, g
  <2>3. SumTo(f, n) = Mul(0, SumTo(g, n)) /\ SumTo(g, n) \in Field
    BY <2>2, SumScaled, SumInField, Closed
  <2> QED BY <2>1, <2>3, MulLaws
<1> QED BY <1>1, <1>2 DEF p

\* A sum with a single term that is not zero.
LEMMA SumSingle ==
  ASSUME NEW n \in Nat, NEW m \in 1 .. n, NEW c \in Field,
         NEW f, \A i \in 1 .. n : f[i] = IF i = m THEN c ELSE 0
  PROVE  SumTo(f, n) = c
<1> DEFINE S == {k \in 0 .. n : SumTo(f, k) = IF m <= k THEN c ELSE 0}
<1>1. 0 \in S
  BY SumUnfolds
<1>2. ASSUME NEW k \in 0 .. n - 1, k \in S PROVE k + 1 \in S
  <2>1. SumTo(f, k + 1) = Add(SumTo(f, k), f[k + 1])
    BY SumUnfolds
  <2>2. SumTo(f, k) = IF m <= k THEN c ELSE 0
    BY <1>2
  <2>3. f[k + 1] = IF k + 1 = m THEN c ELSE 0
    OBVIOUS
  <2>4. Add(c, 0) = c /\ Add(0, c) = c /\ Add(0, 0) = 0
    BY AddLaws, Closed
  <2> QED BY <2>1, <2>2, <2>3, <2>4
<1> HIDE DEF S
<1>3. 0 .. n \subseteq S
  BY <1>1, <1>2, InductionUpTo
<1> QED BY <1>3 DEF S

\* Sums that differ in one term at most differ as that term does.
LEMMA SumsDiffer ==
  ASSUME NEW n \in Nat, NEW m \in 1 .. n, NEW f, NEW g,
         \A i \in 1 .. n : f[i] \in Field /\ g[i] \in Field,
         \A i \in 1 .. n : i # m => f[i] = g[i],
         SumTo(f, n) = SumTo(g, n)
  PROVE  f[m] = g[m]
<1> DEFINE c == Sub(f[m], g[m])
           h == [i \in 1 .. n |-> IF i = m THEN c ELSE 0]
<1>1. c \in Field /\ 0 \in Field
  BY Closed
<1>2. ASSUME NEW i \in 1 .. n PROVE f[i] = Add(h[i], g[i])
  <2>1. CASE i = m
    BY <2>1, SubLaws
  <2>2. CASE i # m
    BY <2>2, AddLaws
  <2> QED BY <2>1, <2>2
<1>3. \A i \in 1 .. n : h[i] \in Field
  BY <1>1
<1>0. \A i \in 1 .. n : h[i] = IF i = m THEN c ELSE 0
  OBVIOUS
<1> HIDE DEF h, c
<1>4. SumTo(f, n) = Add(SumTo(h, n), SumTo(g, n))
  BY <1>2, <1>3, SumOfSums
<1>5. SumTo(h, n) = c
  BY <1>0, <1>1, SumSingle
<1>6. SumTo(g, n) \in Field
  BY SumInField
<1> DEFINE s == SumTo(g, n)
<1>7. s \in Field /\ Add(c, s) = s
  BY <1>4, <1>5, <1>6
<1> HIDE DEF s
<1>8. Sub(Add(c, s), s) = c /\ Sub(s, s) = 0
  BY <1>1, <1>7, SubLaws
<1>9. c = 0
  BY <1>7, <1>8
<1> QED BY <1>9, SubLaws DEF c

\* The sum of the m polynomials f, each with n coefficients.
PolySum(f, n, m) == [i \in 1 .. n |-> SumTo([d \in 1 .. m |-> f[d][i]], m)]

\* Its values are the sums of theirs.
LEMMA EvaluatePolySum ==
  ASSUME NEW n \in Nat, NEW m \in Nat, NEW f, \A d \in 1 .. m : f[d] \in Polynomials(n),
         NEW x \in Field
  PROVE  /\ PolySum(f, n, m) \in Polynomials(n)
         /\ Evaluate(PolySum(f, n, m), x) = SumTo([d \in 1 .. m |-> Evaluate(f[d], x)], m)
<1> DEFINE column(i) == [d \in 1 .. m |-> f[d][i]]
           partial(k) == [i \in 1 .. n |-> SumTo(column(i), k)]
           values == [d \in 1 .. m |-> Evaluate(f[d], x)]
           S == {k \in 0 .. m : /\ partial(k) \in Polynomials(n)
                                /\ Evaluate(partial(k), x) = SumTo(values, k)}
<1>1. 0 \in S
  <2>1. partial(0) = ZeroPoly(n)
    BY SumUnfolds DEF ZeroPoly
  <2>2. ZeroPoly(n) \in Polynomials(n) /\ Evaluate(ZeroPoly(n), x) = 0
    BY ZeroPolynomial
  <2>3. SumTo(values, 0) = 0
    BY SumUnfolds
  <2> HIDE DEF partial, values
  <2> QED BY <2>1, <2>2, <2>3
<1>2. ASSUME NEW k \in 0 .. m - 1, k \in S PROVE k + 1 \in S
  <2>1. k \in Nat /\ k + 1 \in 1 .. m /\ k + 1 \in 0 .. m
    OBVIOUS
  <2>2. partial(k) \in Polynomials(n) /\ Evaluate(partial(k), x) = SumTo(values, k)
    BY <1>2
  <2>3. f[k + 1] \in Polynomials(n)
    BY <2>1
  <2>4. partial(k + 1) = SumOfPolys(partial(k), f[k + 1], n)
    <3>1. ASSUME NEW i \in 1 .. n
          PROVE  SumTo(column(i), k + 1) = Add(SumTo(column(i), k), f[k + 1][i])
      <4>1. column(i)[k + 1] = f[k + 1][i]
        BY <2>1
      <4> HIDE DEF column
      <4> QED BY <2>1, <4>1, SumUnfolds
    <3> HIDE DEF column
    <3> QED BY <3>1 DEF SumOfPolys
  <2>5. values[k + 1] = Evaluate(f[k + 1], x)
    BY <2>1
  <2> HIDE DEF partial, values
  <2>6. SumOfPolys(partial(k), f[k + 1], n) \in Polynomials(n)
        /\ Evaluate(SumOfPolys(partial(k), f[k + 1], n), x)
             = Add(Evaluate(partial(k), x), Evaluate(f[k + 1], x))
    BY <2>2, <2>3, EvaluateSumOfPolys
  <2>7. SumTo(values, k + 1) = Add(SumTo(values, k), values[k + 1])
    BY <2>1, SumUnfolds
  <2> QED BY <2>1, <2>2, <2>4, <2>5, <2>6, <2>7
<1> HIDE DEF S
<1>3. m \in S
  BY <1>1, <1>2, InductionUpTo
<1>4. partial(m) \in Polynomials(n) /\ Evaluate(partial(m), x) = SumTo(values, m)
  BY <1>3 DEF S
<1>5. PolySum(f, n, m) = partial(m)
  BY DEF PolySum
<1> QED BY <1>4, <1>5

-----------------------------------------------------------------------------
(***************************************************************************)
(* Recursion down the tree.                                                *)
(***************************************************************************)

LEMMA SubSeqOfField ==
  ASSUME NEW v \in Seq(Field), NEW a \in Nat, NEW b \in Nat, a >= 1, b <= Len(v), a <= b + 1
  PROVE  /\ SubSeq(v, a, b) \in Seq(Field)
         /\ Len(SubSeq(v, a, b)) = b + 1 - a
         /\ \A i \in 1 .. b + 1 - a : SubSeq(v, a, b)[i] = v[a + i - 1]
<1>1. SubSeq(v, a, b) = [i \in 1 .. b + 1 - a |-> v[a + i - 1]]
  OBVIOUS
<1>2. b + 1 - a \in Nat
  OBVIOUS
<1>3. \A i \in 1 .. b + 1 - a : v[a + i - 1] \in Field
  <2> TAKE i \in 1 .. b + 1 - a
  <2>1. a + i - 1 \in 1 .. Len(v)
    OBVIOUS
  <2> QED BY <2>1
<1> QED BY <1>1, <1>2, <1>3

\* A domain of two points or more has smaller halves.
LEMMA Halves ==
  ASSUME NEW v \in Domains, Len(v) # 1
  PROVE  /\ Len(v) \in Nat /\ Half(v) \in 1 .. Len(v) - 1
         /\ FirstHalf(v) \in Domains /\ SecondHalf(v) \in Domains
         /\ Len(FirstHalf(v)) = Half(v)
         /\ Len(SecondHalf(v)) = Len(v) - Half(v)
         /\ \A i \in 1 .. Half(v) : FirstHalf(v)[i] = v[i]
         /\ \A i \in 1 .. Len(v) - Half(v) : SecondHalf(v)[i] = v[Half(v) + i]
<1> DEFINE h == Half(v)
<1>1. v \in Seq(Field) /\ Len(v) \in Nat /\ Len(v) >= 2
  <2>1. v \in Seq(Field) /\ v # <<>>
    BY DEF Domains
  <2>2. Len(v) \in Nat \ {0}
    BY <2>1, EmptySeq
  <2>3. \A n \in Nat \ {0} : n # 1 => n >= 2
    OBVIOUS
  <2>4. Len(v) >= 2
    BY <2>2, <2>3, Zenon
  <2> QED BY <2>1, <2>2, <2>4
<1>2. h \in 1 .. Len(v) - 1
  BY <1>1 DEF Half
<1> HIDE DEF h
<1>3. /\ SubSeq(v, 1, h) \in Seq(Field)
      /\ Len(SubSeq(v, 1, h)) = h
      /\ \A i \in 1 .. h : SubSeq(v, 1, h)[i] = v[i]
  <2>1. h + 1 - 1 = h /\ \A i \in 1 .. h : 1 + i - 1 = i
    BY <1>2
  <2> QED BY <1>1, <1>2, <2>1, SubSeqOfField
<1>4. /\ SubSeq(v, h + 1, Len(v)) \in Seq(Field)
      /\ Len(SubSeq(v, h + 1, Len(v))) = Len(v) - h
      /\ \A i \in 1 .. Len(v) - h : SubSeq(v, h + 1, Len(v))[i] = v[h + i]
  <2>1. Len(v) + 1 - (h + 1) = Len(v) - h /\ \A i \in 1 .. Len(v) - h : h + 1 + i - 1 = h + i
    BY <1>1, <1>2
  <2>2. /\ h + 1 \in Nat /\ Len(v) \in Nat /\ h + 1 >= 1
        /\ Len(v) <= Len(v) /\ h + 1 <= Len(v) + 1
    BY <1>1, <1>2
  <2>3. /\ SubSeq(v, h + 1, Len(v)) \in Seq(Field)
        /\ Len(SubSeq(v, h + 1, Len(v))) = Len(v) + 1 - (h + 1)
        /\ \A i \in 1 .. Len(v) + 1 - (h + 1) :
              SubSeq(v, h + 1, Len(v))[i] = v[h + 1 + i - 1]
    BY <1>1, <2>2, SubSeqOfField
  <2> QED BY <2>1, <2>3
<1>5. SubSeq(v, 1, h) # <<>> /\ SubSeq(v, h + 1, Len(v)) # <<>>
  <2>1. Len(SubSeq(v, 1, h)) # 0 /\ Len(SubSeq(v, h + 1, Len(v))) # 0
    <3>1. h # 0 /\ Len(v) - h # 0
      BY <1>1, <1>2
    <3> QED BY <1>3, <1>4, <3>1, Zenon
  <2>2. Len(<<>>) = 0
    OBVIOUS
  <2> QED BY <2>1, <2>2, Zenon
<1>6. FirstHalf(v) = SubSeq(v, 1, h) /\ SecondHalf(v) = SubSeq(v, h + 1, Len(v))
  BY DEF FirstHalf, SecondHalf, h
<1>7. /\ FirstHalf(v) \in Domains /\ SecondHalf(v) \in Domains
  BY <1>3, <1>4, <1>5, <1>6 DEF Domains
<1>8. /\ Len(FirstHalf(v)) = h /\ Len(SecondHalf(v)) = Len(v) - h
      /\ \A i \in 1 .. h : FirstHalf(v)[i] = v[i]
      /\ \A i \in 1 .. Len(v) - h : SecondHalf(v)[i] = v[h + i]
  BY <1>3, <1>4, <1>6
<1> QED BY <1>1, <1>2, <1>7, <1>8 DEF h

\* What holds of single points, and of a domain when it holds of its halves,
\* holds of every domain.
LEMMA TreeInduction ==
  ASSUME NEW S,
         \A v \in Domains : Len(v) = 1 => v \in S,
         \A v \in Domains : Len(v) # 1 /\ FirstHalf(v) \in S /\ SecondHalf(v) \in S
                              => v \in S
  PROVE  Domains \subseteq S
<1> DEFINE T == {n \in Nat : \A v \in Domains : Len(v) <= n => v \in S}
<1>1. 0 \in T
  BY DEF Domains
<1>2. ASSUME NEW n \in Nat, n \in T
      PROVE  n + 1 \in T
  <2> SUFFICES ASSUME NEW v \in Domains, Len(v) <= n + 1, Len(v) # 1
               PROVE  v \in S
    OBVIOUS
  <2>1. /\ FirstHalf(v) \in Domains /\ SecondHalf(v) \in Domains
        /\ Len(FirstHalf(v)) <= n /\ Len(SecondHalf(v)) <= n
    BY Halves
  <2> QED BY <1>2, <2>1
<1> HIDE DEF T
<1>3. Nat \subseteq T
  BY <1>1, <1>2, Induction
<1> SUFFICES ASSUME NEW v \in Domains PROVE v \in S
  OBVIOUS
<1>4. Len(v) \in Nat /\ Len(v) <= Len(v)
  BY DEF Domains
<1> QED BY <1>3, <1>4 DEF T

\* g is computed at v from the halves of v.
Recurs(g, leaf, join, v) ==
    g[v] = IF Len(v) = 1 THEN leaf[v]
           ELSE join[v][g[FirstHalf(v)]][g[SecondHalf(v)]]

\* A function on the domains may be defined by its values on their halves.
LEMMA TreeRecursion ==
  ASSUME NEW R, NEW leaf \in [Domains -> R],
         NEW join \in [Domains -> [R -> [R -> R]]]
  PROVE  \E g \in [Domains -> R] : \A v \in Domains : Recurs(g, leaf, join, v)
<1> DEFINE Upto(g, n) == \A v \in Domains : Len(v) <= n => Recurs(g, leaf, join, v)
           T == {n \in Nat : \E g \in [Domains -> R] : Upto(g, n)}
<1>1. 0 \in T
  BY DEF Domains
<1>2. ASSUME NEW n \in Nat, n \in T
      PROVE  n + 1 \in T
  <2>1. PICK g \in [Domains -> R] : Upto(g, n)
    BY <1>2
  <2> DEFINE h == [v \in Domains |->
                     IF Len(v) = 1 THEN leaf[v]
                     ELSE join[v][g[FirstHalf(v)]][g[SecondHalf(v)]]]
  <2>2. h \in [Domains -> R]
    <3> SUFFICES ASSUME NEW v \in Domains, Len(v) # 1
                 PROVE  join[v][g[FirstHalf(v)]][g[SecondHalf(v)]] \in R
      OBVIOUS
    <3>1. FirstHalf(v) \in Domains /\ SecondHalf(v) \in Domains
      BY Halves
    <3>2. g[FirstHalf(v)] \in R /\ g[SecondHalf(v)] \in R
      BY <3>1
    <3> QED BY <3>2
  <2>3. \A v \in Domains : Len(v) <= n => h[v] = g[v]
    BY <2>1 DEF Recurs
  <2>4. ASSUME NEW v \in Domains, Len(v) <= n + 1
        PROVE  Recurs(h, leaf, join, v)
    <3>1. CASE Len(v) = 1
      BY <3>1 DEF Recurs
    <3>2. CASE Len(v) # 1
      <4>1. /\ FirstHalf(v) \in Domains /\ SecondHalf(v) \in Domains
            /\ Len(FirstHalf(v)) <= n /\ Len(SecondHalf(v)) <= n
        BY <2>4, <3>2, Halves
      <4>2. h[FirstHalf(v)] = g[FirstHalf(v)] /\ h[SecondHalf(v)] = g[SecondHalf(v)]
        BY <2>3, <4>1
      <4> QED BY <3>2, <4>2 DEF Recurs
    <3> QED BY <3>1, <3>2
  <2> HIDE DEF h
  <2>5. Upto(h, n + 1)
    BY <2>4
  <2> QED BY <2>2, <2>5
<1> HIDE DEF T
<1>3. Nat \subseteq T
  BY <1>1, <1>2, Induction
<1> USE DEF T
<1> DEFINE Stage(n) == CHOOSE g \in [Domains -> R] : Upto(g, n)
<1>4. \A n \in Nat : Stage(n) \in [Domains -> R] /\ Upto(Stage(n), n)
  BY <1>3
<1> HIDE DEF T, Stage
<1> DEFINE A == {v \in Domains : \A m, n \in Nat :
                    Len(v) <= m /\ Len(v) <= n => Stage(m)[v] = Stage(n)[v]}
<1>5. Domains \subseteq A
  <2>1. ASSUME NEW v \in Domains, Len(v) = 1
        PROVE  v \in A
    BY <1>4, <2>1 DEF Recurs
  <2>2. ASSUME NEW v \in Domains, Len(v) # 1, FirstHalf(v) \in A, SecondHalf(v) \in A
        PROVE  v \in A
    <3> SUFFICES ASSUME NEW m \in Nat, NEW n \in Nat, Len(v) <= m, Len(v) <= n
                 PROVE  Stage(m)[v] = Stage(n)[v]
      OBVIOUS
    <3>1. /\ Len(FirstHalf(v)) <= m /\ Len(FirstHalf(v)) <= n
          /\ Len(SecondHalf(v)) <= m /\ Len(SecondHalf(v)) <= n
      BY <2>2, Halves
    <3>2. /\ Stage(m)[FirstHalf(v)] = Stage(n)[FirstHalf(v)]
          /\ Stage(m)[SecondHalf(v)] = Stage(n)[SecondHalf(v)]
      BY <2>2, <3>1
    <3>3. Recurs(Stage(m), leaf, join, v) /\ Recurs(Stage(n), leaf, join, v)
      BY <1>4
    <3> QED BY <2>2, <3>2, <3>3 DEF Recurs
  <2> HIDE DEF A
  <2> QED BY <2>1, <2>2, TreeInduction
<1> DEFINE g == [v \in Domains |-> Stage(Len(v))[v]]
<1>6. \A v \in Domains : Len(v) \in Nat /\ Len(v) <= Len(v)
  BY DEF Domains
<1>7. g \in [Domains -> R]
  BY <1>4, <1>6
<1>8. ASSUME NEW v \in Domains
      PROVE  Recurs(g, leaf, join, v)
  <2>1. Recurs(Stage(Len(v)), leaf, join, v)
    BY <1>4, <1>6
  <2>2. CASE Len(v) = 1
    BY <2>1, <2>2 DEF Recurs
  <2>3. CASE Len(v) # 1
    <3>1. /\ FirstHalf(v) \in Domains /\ SecondHalf(v) \in Domains
          /\ Len(FirstHalf(v)) <= Len(v) /\ Len(SecondHalf(v)) <= Len(v)
      BY <2>3, Halves
    <3>2. /\ Stage(Len(v))[FirstHalf(v)] = g[FirstHalf(v)]
          /\ Stage(Len(v))[SecondHalf(v)] = g[SecondHalf(v)]
      BY <1>5, <1>6, <3>1
    <3> QED BY <2>1, <2>3, <3>2 DEF Recurs
  <2> QED BY <2>2, <2>3
<1> HIDE DEF g
<1> QED BY <1>7, <1>8

-----------------------------------------------------------------------------
(***************************************************************************)
(* Coefficients and values.                                                *)
(***************************************************************************)

LEMMA SeqIsPolynomial ==
  ASSUME NEW p \in Seq(Field)
  PROVE  /\ Len(p) \in Nat /\ DOMAIN p = 1 .. Len(p)
         /\ p \in Polynomials(Len(p))
         /\ \A i \in 1 .. Len(p) : p[i] \in Field
BY LenProperties DEF Polynomials

LEMMA PolynomialIsSeq ==
  ASSUME NEW n \in Nat, NEW p \in Polynomials(n)
  PROVE  p \in Seq(Field) /\ Len(p) = n
BY PolynomialLength DEF Polynomials

LEMMA CoefficientIs ==
  ASSUME NEW p \in Seq(Field), NEW i \in Int
  PROVE  /\ Coefficient(p, i) \in Field
         /\ i \in 1 .. Len(p) => Coefficient(p, i) = p[i]
         /\ i \notin 1 .. Len(p) => Coefficient(p, i) = 0
BY SeqIsPolynomial, Closed DEF Coefficient

\* Zeros at the end do not change a sum.
LEMMA SumExtends ==
  ASSUME NEW f, NEW n \in Nat, NEW m \in Nat, n <= m,
         \A i \in 1 .. n : f[i] \in Field, \A i \in n + 1 .. m : f[i] = 0
  PROVE  SumTo(f, m) = SumTo(f, n)
<1> DEFINE S == {k \in 0 .. m - n : SumTo(f, n + k) = SumTo(f, n)}
<1>1. 0 \in S
  OBVIOUS
<1>2. ASSUME NEW k \in 0 .. m - n - 1, k \in S
      PROVE  k + 1 \in S
  <2>1. n + k \in Nat /\ n + k + 1 \in n + 1 .. m /\ k + 1 \in 0 .. m - n
    OBVIOUS
  <2>2. SumTo(f, n + k + 1) = Add(SumTo(f, n + k), f[n + k + 1])
    BY <2>1, SumUnfolds
  <2>3. SumTo(f, n) \in Field
    BY SumInField
  <2>4. SumTo(f, n + k + 1) = SumTo(f, n)
    BY <1>2, <2>1, <2>2, <2>3, AddLaws, Closed
  <2>5. n + (k + 1) = n + k + 1
    BY <2>1
  <2> QED BY <2>1, <2>4, <2>5
<1>3. m - n \in Nat /\ m - n \in 0 .. m - n /\ n + (m - n) = m
  OBVIOUS
<1> HIDE DEF S
<1>4. 0 .. m - n \subseteq S
  BY <1>1, <1>2, <1>3, InductionUpTo
<1> QED BY <1>3, <1>4 DEF S

LEMMA ResizeValue ==
  ASSUME NEW p \in Seq(Field), NEW n \in Nat, Len(p) <= n, NEW x \in Field
  PROVE  /\ Resize(p, n) \in Polynomials(n)
         /\ Evaluate(Resize(p, n), x) = Evaluate(p, x)
<1> DEFINE r == Resize(p, n)
           f == [i \in 1 .. n |-> Mul(r[i], Power(x, i - 1))]
           g == [i \in 1 .. Len(p) |-> Mul(p[i], Power(x, i - 1))]
<1>1. r \in Polynomials(n) /\ \A i \in 1 .. n : r[i] = Coefficient(p, i) /\ r[i] \in Field
  BY CoefficientIs DEF Resize, Polynomials
<1>2. Len(p) \in Nat
  BY SeqIsPolynomial
<1>3. Evaluate(r, x) = SumTo(f, n)
  BY <1>1, PolynomialLength DEF Evaluate
<1>4. Evaluate(p, x) = SumTo(g, Len(p))
  BY DEF Evaluate
<1>5. \A i \in 1 .. n : i - 1 \in Nat /\ Power(x, i - 1) \in Field
  BY PowerUnfolds
<1>6. \A i \in 1 .. Len(p) : f[i] = g[i] /\ f[i] \in Field
  <2> TAKE i \in 1 .. Len(p)
  <2>1. i \in 1 .. n /\ r[i] = p[i]
    BY <1>1, <1>2, CoefficientIs
  <2> QED BY <1>1, <1>5, <2>1, Closed
<1>7. \A i \in Len(p) + 1 .. n : f[i] = 0
  <2> TAKE i \in Len(p) + 1 .. n
  <2>1. i \in 1 .. n /\ i \notin 1 .. Len(p) /\ r[i] = 0
    BY <1>1, <1>2, CoefficientIs
  <2> QED BY <1>5, <2>1, MulLaws
<1> HIDE DEF f, g, r
<1>8. SumTo(f, n) = SumTo(f, Len(p))
  BY <1>2, <1>6, <1>7, SumExtends
<1>9. SumTo(f, Len(p)) = SumTo(g, Len(p))
  BY <1>2, <1>6, SameSum
<1> QED BY <1>1, <1>3, <1>4, <1>8, <1>9 DEF r

\* The same polynomial, leading zeros apart.
Agree(p, q) == \A i \in Nat \ {0} : Coefficient(p, i) = Coefficient(q, i)

LEMMA AgreeValue ==
  ASSUME NEW p \in Seq(Field), NEW q \in Seq(Field), Agree(p, q), NEW x \in Field
  PROVE  Evaluate(p, x) = Evaluate(q, x)
<1> DEFINE n == Longer(p, q)
<1>1. Len(p) \in Nat /\ Len(q) \in Nat /\ n \in Nat /\ Len(p) <= n /\ Len(q) <= n
  BY SeqIsPolynomial DEF Longer
<1> HIDE DEF n
<1>2. Resize(p, n) = Resize(q, n)
  BY <1>1 DEF Resize, Agree
<1> QED BY <1>1, <1>2, ResizeValue

\* The value of the derivative.
Slope(p, x) == Evaluate(Derivative(p), x)

LEMMA MulInField == \A i \in Int, c \in Field : Mul(i, c) \in Field
<1> SUFFICES ASSUME NEW i \in Int, NEW c \in Field PROVE Mul(i, c) \in Field
  OBVIOUS
<1>1. c \in Int
  BY FieldIsInt
<1>2. i * c \in Int
  BY <1>1
<1> QED BY <1>2, ResidueIsInField DEF Mul

LEMMA DerivativeIs ==
  ASSUME NEW p \in Seq(Field)
  PROVE  /\ Derivative(p) \in Seq(Field)
         /\ Len(Derivative(p)) = IF Len(p) = 0 THEN 0 ELSE Len(p) - 1
         /\ \A i \in Nat \ {0} :
               Coefficient(Derivative(p), i) = Mul(i, Coefficient(p, i + 1))
<1> DEFINE d == Derivative(p)
           n == IF Len(p) = 0 THEN 0 ELSE Len(p) - 1
<1>1. Len(p) \in Nat /\ n \in Nat /\ 1 .. Len(p) - 1 = 1 .. n
  BY SeqIsPolynomial
<1> HIDE DEF n
<1>2. d = [i \in 1 .. n |-> Mul(i, p[i + 1])]
  BY <1>1 DEF Derivative
<1>3. \A i \in 1 .. n : i \in Int /\ i + 1 \in 1 .. Len(p)
  BY <1>1 DEF n
<1>4. \A i \in 1 .. n : Mul(i, p[i + 1]) \in Field
  BY <1>3, SeqIsPolynomial, MulInField
<1>5. d \in Polynomials(n)
  BY <1>2, <1>4 DEF Polynomials
<1>6. d \in Seq(Field) /\ Len(d) = n
  BY <1>1, <1>5, PolynomialIsSeq
<1>7. ASSUME NEW i \in Nat \ {0}
      PROVE  Coefficient(d, i) = Mul(i, Coefficient(p, i + 1))
  <2>1. CASE i \in 1 .. n
    <3>1. d[i] = Mul(i, p[i + 1])
      BY <1>2, <2>1
    <3>2. Coefficient(d, i) = d[i] /\ Coefficient(p, i + 1) = p[i + 1]
      BY <1>3, <1>6, <2>1, CoefficientIs
    <3> QED BY <3>1, <3>2
  <2>2. CASE i \notin 1 .. n
    <3>1. i + 1 \notin 1 .. Len(p)
      BY <1>1, <2>2 DEF n
    <3>2. Coefficient(p, i + 1) = 0 /\ Coefficient(d, i) = 0
      BY <1>6, <2>2, <3>1, CoefficientIs
    <3>3. Mul(i, 0) = 0
      BY Reduced, ResidueFixed, Closed
    <3> QED BY <3>2, <3>3
  <2> QED BY <2>1, <2>2
<1> QED BY <1>6, <1>7 DEF n

LEMMA AgreeSlope ==
  ASSUME NEW p \in Seq(Field), NEW q \in Seq(Field), Agree(p, q), NEW x \in Field
  PROVE  Slope(p, x) = Slope(q, x)
<1>1. Agree(Derivative(p), Derivative(q))
  BY DerivativeIs DEF Agree
<1> QED BY <1>1, DerivativeIs, AgreeValue DEF Slope

LEMMA ResizeAgrees ==
  ASSUME NEW p \in Seq(Field), NEW n \in Nat, Len(p) <= n
  PROVE  /\ Resize(p, n) \in Polynomials(n)
         /\ Resize(p, n) \in Seq(Field) /\ Len(Resize(p, n)) = n
         /\ Agree(p, Resize(p, n))
<1> DEFINE r == Resize(p, n)
<1>1. r \in Polynomials(n) /\ \A i \in 1 .. n : r[i] = Coefficient(p, i)
  BY CoefficientIs DEF Resize, Polynomials
<1> HIDE DEF r
<1>2. r \in Seq(Field) /\ Len(r) = n
  BY <1>1, PolynomialIsSeq
<1>3. Agree(p, r)
  BY <1>1, <1>2, CoefficientIs, SeqIsPolynomial DEF Agree
<1> QED BY <1>1, <1>2, <1>3 DEF r

LEMMA TruncateIs ==
  ASSUME NEW p \in Seq(Field)
  PROVE  /\ Truncate(p) \in Seq(Field)
         /\ Len(Truncate(p)) <= Len(p)
         /\ Agree(p, Truncate(p))
         /\ Truncate(p) # <<>> => Truncate(p)[Len(Truncate(p))] # 0
<1> DEFINE Cut(n) == /\ n > 0 => p[n] # 0
                     /\ \A i \in n + 1 .. Len(p) : p[i] = 0
           S == {n \in 0 .. Len(p) : \A i \in n + 1 .. Len(p) : p[i] = 0}
           m == CHOOSE n \in 0 .. Len(p) : Cut(n)
<1>1. Len(p) \in Nat
  BY SeqIsPolynomial
<1>2. \E n \in 0 .. Len(p) : Cut(n)
  <2>1. S \in SUBSET Nat /\ Len(p) \in S
    BY <1>1
  <2> HIDE DEF S
  <2>2. PICK n \in S : \A y \in S : n <= y
    BY <2>1, Least
  <2> USE DEF S
  <2>3. ASSUME n > 0, p[n] = 0
        PROVE  FALSE
    <3>1. n - 1 \in S
      <4>1. n \in 0 .. Len(p) /\ n - 1 \in 0 .. Len(p)
        BY <1>1, <2>2, <2>3
      <4>2. \A i \in n - 1 + 1 .. Len(p) : i = n \/ i \in n + 1 .. Len(p)
        BY <1>1, <4>1
      <4>3. \A i \in n + 1 .. Len(p) : p[i] = 0
        BY <2>2
      <4> QED BY <2>3, <4>1, <4>2, <4>3
    <3>2. n \in Nat /\ n <= n - 1
      BY <2>1, <2>2, <3>1
    <3> QED BY <3>2
  <2> QED BY <2>2, <2>3
<1> HIDE DEF Cut
<1>3. m \in 0 .. Len(p) /\ Cut(m)
  BY <1>2
<1>4. Truncate(p) = SubSeq(p, 1, m)
  BY DEF Truncate, Cut
<1> HIDE DEF m
<1>5. /\ Truncate(p) \in Seq(Field) /\ Len(Truncate(p)) = m
      /\ \A i \in 1 .. m : Truncate(p)[i] = p[i]
  <2>1. /\ SubSeq(p, 1, m) \in Seq(Field) /\ Len(SubSeq(p, 1, m)) = m + 1 - 1
        /\ \A i \in 1 .. m + 1 - 1 : SubSeq(p, 1, m)[i] = p[1 + i - 1]
    BY <1>1, <1>3, SubSeqOfField
  <2> QED BY <1>1, <1>3, <1>4, <2>1
<1>6. Agree(p, Truncate(p))
  <2> SUFFICES ASSUME NEW i \in Nat \ {0}
               PROVE  Coefficient(p, i) = Coefficient(Truncate(p), i)
    BY DEF Agree
  <2>1. CASE i \in 1 .. m
    BY <1>1, <1>3, <1>5, <2>1, CoefficientIs
  <2>2. CASE i \notin 1 .. m
    <3>1. i \in 1 .. Len(p) => p[i] = 0
      BY <1>1, <1>3, <2>2 DEF Cut
    <3> QED BY <1>5, <2>2, <3>1, CoefficientIs
  <2> QED BY <2>1, <2>2
<1>7. Truncate(p) # <<>> => Truncate(p)[Len(Truncate(p))] # 0
  <2>1. Truncate(p) # <<>> => m > 0
    BY <1>5, EmptySeq
  <2> QED BY <1>3, <1>5, <2>1 DEF Cut
<1> QED BY <1>1, <1>3, <1>5, <1>6, <1>7

\* The derivative of c + x s.
LEMMA SlopeStep ==
  ASSUME NEW n \in Nat, NEW p \in Polynomials(n + 1), NEW x \in Field
  PROVE  LET s == Shifted(p, n)
         IN  Slope(p, x) = Add(Evaluate(s, x), Mul(x, Slope(s, x)))
<1> DEFINE s == Shifted(p, n)
           d == Derivative(p)
           e == [i \in 1 .. n |-> Mul(i - 1, s[i])]
<1>1. s \in Polynomials(n) /\ \A i \in 1 .. n : s[i] = p[i + 1] /\ s[i] \in Field
  BY PolynomialLength DEF Shifted, Polynomials
<1>2. p \in Seq(Field) /\ Len(p) = n + 1 /\ s \in Seq(Field) /\ Len(s) = n
  BY <1>1, PolynomialIsSeq
<1>3. d = [i \in 1 .. n |-> Mul(i, p[i + 1])]
  BY <1>2 DEF Derivative
<1> HIDE DEF s
<1>4. e \in Polynomials(n) /\ \A i \in 1 .. n : e[i] = Mul(i - 1, s[i])
  BY <1>1, MulInField DEF Polynomials
<1>5. d = SumOfPolys(s, e, n)
  <2>1. ASSUME NEW i \in 1 .. n
        PROVE  Mul(i, p[i + 1]) = Add(s[i], e[i])
    <3>1. s[i] \in Int /\ s[i] = p[i + 1] /\ Residue(s[i]) = s[i]
      BY <1>1, ResidueFixed
    <3>2. (i - 1) * s[i] \in Int /\ i * s[i] = s[i] + (i - 1) * s[i]
      BY <3>1
    <3>3. e[i] = Residue((i - 1) * s[i])
      BY <1>4, Zenon DEF Mul, Residue
    <3>4. Add(s[i], Residue((i - 1) * s[i])) = Residue(s[i] + (i - 1) * s[i])
      BY <3>1, <3>2, Reduced
    <3>5. Mul(i, p[i + 1]) = Residue(i * s[i])
      BY <3>1, Zenon DEF Mul, Residue
    <3> QED BY <3>2, <3>3, <3>4, <3>5
  <2> QED BY <1>3, <2>1 DEF SumOfPolys
<1>6. Evaluate(d, x) = Add(Evaluate(s, x), Evaluate(e, x))
  BY <1>1, <1>4, <1>5, EvaluateSumOfPolys
<1>7. Evaluate(e, x) = Mul(x, Slope(s, x))
  <2>1. CASE n = 0
    <3>1. Evaluate(e, x) = 0
      BY <1>4, <2>1, EmptyPolynomial
    <3>2. Derivative(s) \in Polynomials(0)
      BY <1>2, <2>1, DerivativeIs, SeqIsPolynomial
    <3> QED BY <3>1, <3>2, EmptyPolynomial, MulLaws DEF Slope
  <2>2. CASE n # 0
    <3>1. n - 1 \in Nat /\ n = (n - 1) + 1
      BY <2>2
    <3>2. Shifted(e, n - 1) = Derivative(s)
      <4>1. \A i \in 1 .. n - 1 : i + 1 \in 1 .. n /\ (i + 1) - 1 = i
        OBVIOUS
      <4>2. \A i \in 1 .. n - 1 : e[i + 1] = Mul(i, s[i + 1])
        BY <1>4, <4>1
      <4> HIDE DEF e
      <4> QED BY <1>2, <4>2 DEF Shifted, Derivative
    <3>3. e[1] = 0
      <4>1. e[1] = Mul(0, s[1]) /\ s[1] \in Field
        BY <1>1, <2>2
      <4> QED BY <4>1, MulLaws
    <3> HIDE DEF e
    <3>4. /\ Shifted(e, n - 1) \in Polynomials(n - 1)
          /\ Evaluate(e, x) = Add(e[1], Mul(x, Evaluate(Shifted(e, n - 1), x)))
      BY <1>4, <3>1, EvaluateStep
    <3>5. Evaluate(Shifted(e, n - 1), x) \in Field
      BY <3>1, <3>4, EvaluateInField
    <3> QED BY <3>2, <3>3, <3>4, <3>5, AddLaws, Closed DEF Slope
  <2> QED BY <2>1, <2>2
<1> QED BY <1>6, <1>7 DEF Slope, s

LEMMA MulAssociates ==
  ASSUME NEW a \in Field, NEW b \in Field, NEW c \in Field
  PROVE  Mul(Mul(a, b), c) = Mul(a, Mul(b, c))
BY MulLaws

\* The multiple c p + q of polynomials of the same length.
Linear(c, p, q, n) == [i \in 1 .. n |-> Add(Mul(c, p[i]), q[i])]

LEMMA LinearValue ==
  ASSUME NEW n \in Nat, NEW c \in Field,
         NEW p \in Polynomials(n), NEW q \in Polynomials(n), NEW x \in Field
  PROVE  /\ Linear(c, p, q, n) \in Polynomials(n)
         /\ Evaluate(Linear(c, p, q, n), x) = Add(Mul(c, Evaluate(p, x)), Evaluate(q, x))
<1> DEFINE s == [i \in 1 .. n |-> Mul(c, p[i])]
           f == [i \in 1 .. n |-> Mul(p[i], Power(x, i - 1))]
           g == [i \in 1 .. n |-> Mul(s[i], Power(x, i - 1))]
<1>1. /\ \A i \in 1 .. n : p[i] \in Field /\ q[i] \in Field
      /\ s \in Polynomials(n) /\ Len(p) = n
  BY PolynomialLength, Closed DEF Polynomials
<1>2. Linear(c, p, q, n) = SumOfPolys(s, q, n)
  BY DEF Linear, SumOfPolys
<1>3. Evaluate(s, x) = Mul(c, Evaluate(p, x))
  <2>1. Evaluate(s, x) = SumTo(g, n) /\ Evaluate(p, x) = SumTo(f, n)
    BY <1>1, PolynomialLength DEF Evaluate
  <2>2. \A i \in 1 .. n : f[i] \in Field /\ g[i] = Mul(c, f[i])
    <3> TAKE i \in 1 .. n
    <3> DEFINE e == Power(x, i - 1)
    <3>1. e \in Field
      BY PowerUnfolds
    <3>2. f[i] = Mul(p[i], e) /\ g[i] = Mul(Mul(c, p[i]), e)
      OBVIOUS
    <3> DEFINE a == p[i]
    <3>3. a \in Field
      BY <1>1
    <3> HIDE DEF a, e
    <3>4. Mul(a, e) \in Field
      BY <3>1, <3>3, Closed
    <3>5. Mul(Mul(c, a), e) = Mul(c, Mul(a, e))
      BY <3>1, <3>3, MulAssociates
    <3> QED BY <3>2, <3>4, <3>5, Zenon DEF a
  <2> HIDE DEF f, g, s
  <2> QED BY <2>1, <2>2, SumScaled
<1> HIDE DEF s
<1> QED BY <1>1, <1>2, <1>3, EvaluateSumOfPolys

LEMMA LinearSlope ==
  ASSUME NEW n \in Nat, NEW c \in Field,
         NEW p \in Polynomials(n), NEW q \in Polynomials(n), NEW x \in Field
  PROVE  Slope(Linear(c, p, q, n), x) = Add(Mul(c, Slope(p, x)), Slope(q, x))
<1> DEFINE l == Linear(c, p, q, n)
           m == IF n = 0 THEN 0 ELSE n - 1
<1>1. /\ l \in Polynomials(n) /\ l \in Seq(Field) /\ Len(l) = n
      /\ p \in Seq(Field) /\ Len(p) = n /\ q \in Seq(Field) /\ Len(q) = n
  <2>1. l \in Polynomials(n)
    BY LinearValue, Closed
  <2> QED BY <2>1, PolynomialIsSeq
<1>2. m \in Nat /\ 1 .. n - 1 = 1 .. m /\ \A i \in 1 .. m : i \in Nat \ {0} /\ i + 1 \in 1 .. n
  OBVIOUS
<1> HIDE DEF l, m
<1>3. /\ Derivative(l) = [i \in 1 .. m |-> Mul(i, l[i + 1])]
      /\ Derivative(p) = [i \in 1 .. m |-> Mul(i, p[i + 1])]
      /\ Derivative(q) = [i \in 1 .. m |-> Mul(i, q[i + 1])]
  BY <1>1, <1>2 DEF Derivative
<1>4. Derivative(p) \in Polynomials(m) /\ Derivative(q) \in Polynomials(m)
  <2>1. ASSUME NEW i \in 1 .. m
        PROVE  Mul(i, p[i + 1]) \in Field /\ Mul(i, q[i + 1]) \in Field
    BY <1>1, <1>2, SeqIsPolynomial, MulInField
  <2> QED BY <1>3, <2>1 DEF Polynomials
<1>5. Derivative(l) = Linear(c, Derivative(p), Derivative(q), m)
  <2>1. ASSUME NEW i \in 1 .. m
        PROVE  Mul(i, l[i + 1]) = Add(Mul(c, Derivative(p)[i]), Derivative(q)[i])
    <3> DEFINE a == p[i + 1]  b == q[i + 1]
    <3>1. a \in Field /\ b \in Field /\ a \in Int /\ b \in Int /\ c \in Int /\ i \in Int
      <4>1. i + 1 \in 1 .. n /\ i \in Int
        BY <1>2
      <4>2. \A k \in 1 .. n : p[k] \in Field /\ q[k] \in Field
        BY PolynomialLength
      <4>3. a \in Field /\ b \in Field
        BY <4>1, <4>2
      <4> QED BY <4>1, <4>3, FieldIsInt
    <3>2. /\ l[i + 1] = Add(Mul(c, a), b)
          /\ Derivative(p)[i] = Mul(i, a) /\ Derivative(q)[i] = Mul(i, b)
      BY <1>2, <1>3 DEF Linear, l
    <3> HIDE DEF a, b
    <3>3. /\ c * a \in Int /\ c * a + b \in Int /\ i * a \in Int /\ i * b \in Int
          /\ c * (i * a) \in Int
      BY <3>1
    <3>4. Mul(i, l[i + 1]) = Residue(i * (c * a + b))
      <4>1. Mul(c, a) = Residue(c * a)
        BY <3>1, Reduced
      <4>2. Add(Residue(c * a), b) = Residue(c * a + b)
        BY <3>1, <3>3, Reduced
      <4>3. Mul(i, Residue(c * a + b)) = Residue(i * (c * a + b))
        BY <3>1, <3>3, Reduced
      <4> QED BY <3>2, <4>1, <4>2, <4>3
    <3>5. Add(Mul(c, Mul(i, a)), Mul(i, b)) = Residue(c * (i * a) + i * b)
      <4>1. Mul(i, a) = Residue(i * a) /\ Mul(i, b) = Residue(i * b)
        BY <3>1, Reduced
      <4>2. Mul(c, Residue(i * a)) = Residue(c * (i * a))
        BY <3>1, <3>3, Reduced
      <4>3. /\ Residue(i * b) \in Int
            /\ Add(Residue(c * (i * a)), Residue(i * b)) = Residue(c * (i * a) + Residue(i * b))
        <5>1. Residue(i * b) \in Int
          BY <3>3, Reduced, FieldIsInt
        <5> QED BY <3>3, <5>1, Reduced
      <4>4. Add(c * (i * a), Residue(i * b)) = Residue(c * (i * a) + i * b)
        BY <3>3, Reduced
      <4>5. Add(c * (i * a), Residue(i * b)) = Residue(c * (i * a) + Residue(i * b))
        BY <3>3, <4>3, Reduced
      <4> QED BY <4>1, <4>2, <4>3, <4>4, <4>5
    <3>6. i * (c * a + b) = c * (i * a) + i * b
      BY <3>1
    <3> QED BY <3>2, <3>4, <3>5, <3>6
  <2> QED BY <1>3, <2>1 DEF Linear
<1> QED BY <1>2, <1>4, <1>5, LinearValue DEF Slope, l

-----------------------------------------------------------------------------
(***************************************************************************)
(* Products.                                                               *)
(***************************************************************************)

LEMMA AddCommutes ==
  ASSUME NEW a \in Field, NEW b \in Field
  PROVE  Add(a, b) = Add(b, a) /\ Mul(a, b) = Mul(b, a)
BY AddLaws, MulLaws

\* a q + x (r q) = (a + x r) q.
LEMMA ProductStep ==
  ASSUME NEW a \in Field, NEW x \in Field, NEW r \in Field, NEW q \in Field
  PROVE  Add(Mul(a, q), Mul(x, Mul(r, q))) = Mul(Add(a, Mul(x, r)), q)
<1> DEFINE xr == Mul(x, r)
<1>1. xr \in Field /\ Mul(xr, q) = Mul(x, Mul(r, q))
  <2>1. xr \in Field
    BY Closed
  <2>2. Mul(Mul(x, r), q) = Mul(x, Mul(r, q))
    BY MulAssociates
  <2> QED BY <2>1, <2>2
<1> HIDE DEF xr
<1>2. Mul(q, Add(a, xr)) = Add(Mul(q, a), Mul(q, xr))
  BY <1>1, Distributes
<1>3. /\ Add(a, xr) \in Field
      /\ Mul(q, a) = Mul(a, q) /\ Mul(q, xr) = Mul(xr, q)
  BY <1>1, Closed, AddCommutes
<1>4. Mul(Add(a, xr), q) = Mul(q, Add(a, xr))
  BY <1>3, AddCommutes
<1> QED BY <1>1, <1>2, <1>3, <1>4 DEF xr

LEMMA SlopeProductStep ==
  ASSUME NEW a \in Field, NEW x \in Field, NEW r \in Field, NEW q \in Field,
         NEW dr \in Field, NEW dq \in Field
  PROVE  Add(Mul(a, dq), Add(Mul(r, q), Mul(x, Add(Mul(dr, q), Mul(r, dq)))))
           = Add(Mul(Add(r, Mul(x, dr)), q), Mul(Add(a, Mul(x, r)), dq))
<1> DEFINE m == Mul(a, dq)  n == Mul(r, q)
           s == Mul(x, Mul(dr, q))  t == Mul(x, Mul(r, dq))
<1>1. Mul(dr, q) \in Field /\ Mul(r, dq) \in Field
  BY Closed
<1>2. m \in Field /\ n \in Field /\ s \in Field /\ t \in Field
  BY <1>1, Closed
<1>3. Mul(x, Add(Mul(dr, q), Mul(r, dq))) = Add(s, t)
  BY <1>1, Distributes
<1>4. /\ Mul(Add(r, Mul(x, dr)), q) = Add(n, s)
      /\ Mul(Add(a, Mul(x, r)), dq) = Add(m, t)
  BY ProductStep
<1> HIDE DEF m, n, s, t
<1>5. Add(Add(n, s), Add(m, t)) = Add(Add(n, m), Add(s, t))
  BY <1>2, AddExchange
<1>6. Add(m, Add(n, Add(s, t))) = Add(Add(m, n), Add(s, t))
  <2>1. Add(s, t) \in Field
    BY <1>2, Closed
  <2> QED BY <1>2, <2>1, AddLaws
<1>7. Add(m, n) = Add(n, m)
  BY <1>2, AddCommutes
<1> QED BY <1>3, <1>4, <1>5, <1>6, <1>7 DEF m, n

LEMMA ValuesInField ==
  ASSUME NEW p \in Seq(Field), NEW x \in Field
  PROVE  Evaluate(p, x) \in Field /\ Slope(p, x) \in Field
BY SeqIsPolynomial, EvaluateInField, DerivativeIs DEF Slope

\* The first n coefficients of the product.
RawMul(p, q, n) ==
    [i \in 1 .. n |-> SumTo([j \in 1 .. i |->
        Mul(Coefficient(p, j), Coefficient(q, i + 1 - j))], i)]

LEMMA RawMulType ==
  ASSUME NEW p \in Seq(Field), NEW q \in Seq(Field), NEW n \in Nat
  PROVE  RawMul(p, q, n) \in Polynomials(n)
<1> SUFFICES ASSUME NEW i \in 1 .. n
             PROVE  SumTo([j \in 1 .. i |->
                        Mul(Coefficient(p, j), Coefficient(q, i + 1 - j))], i) \in Field
  BY DEF RawMul, Polynomials
<1> DEFINE f == [j \in 1 .. i |-> Mul(Coefficient(p, j), Coefficient(q, i + 1 - j))]
<1>1. \A j \in 1 .. i : f[j] \in Field
  <2> TAKE j \in 1 .. i
  <2>1. j \in Int /\ i + 1 - j \in Int
    OBVIOUS
  <2>2. Coefficient(p, j) \in Field /\ Coefficient(q, i + 1 - j) \in Field
    BY <2>1, CoefficientIs
  <2> QED BY <2>2, Closed
<1> HIDE DEF f
<1>2. SumTo(f, i) \in Field
  BY <1>1, SumInField
<1> QED BY <1>2 DEF f

\* c_{i+1} = p_1 q_{i+1} + c'_i, where c' is the product without p_1.
LEMMA RawMulStep ==
  ASSUME NEW k \in Nat, NEW p \in Polynomials(k + 1), NEW q \in Seq(Field),
         NEW n \in Nat
  PROVE  LET c == RawMul(p, q, n + 1)
             s == RawMul(Shifted(p, k), q, n)
         IN  /\ c[1] = Mul(p[1], Coefficient(q, 1))
             /\ \A i \in 1 .. n : c[i + 1] = Add(Mul(p[1], Coefficient(q, i + 1)), s[i])
<1> DEFINE r == Shifted(p, k)
           c == RawMul(p, q, n + 1)
           s == RawMul(r, q, n)
           F(i) == [j \in 1 .. i |-> Mul(Coefficient(p, j), Coefficient(q, i + 1 - j))]
           G(i) == [j \in 1 .. i |-> Mul(Coefficient(r, j), Coefficient(q, i + 1 - j))]
<1>1. p \in Seq(Field) /\ Len(p) = k + 1 /\ p[1] \in Field
  BY PolynomialIsSeq, PolynomialLength
<1>2. r \in Seq(Field) /\ Len(r) = k /\ \A j \in 1 .. k : r[j] = p[j + 1]
  <2>1. \A j \in 1 .. k : p[j + 1] \in Field
    BY PolynomialLength
  <2>2. r \in Polynomials(k)
    BY <2>1 DEF Shifted, Polynomials
  <2> QED BY <2>2, PolynomialIsSeq DEF Shifted
<1>3. \A i \in 1 .. n + 1 : c[i] = SumTo(F(i), i)
  BY DEF RawMul
<1>4. \A i \in 1 .. n : s[i] = SumTo(G(i), i)
  BY DEF RawMul
<1> HIDE DEF r, c, s
<1>5. Coefficient(p, 1) = p[1]
  BY <1>1, CoefficientIs
<1>6. \A j \in Nat \ {0} : Coefficient(p, j + 1) = Coefficient(r, j)
  <2> TAKE j \in Nat \ {0}
  <2>1. CASE j \in 1 .. k
    <3>1. j \in Int /\ j + 1 \in Int /\ j \in 1 .. Len(r) /\ j + 1 \in 1 .. Len(p)
      BY <1>1, <1>2, <2>1
    <3>2. Coefficient(p, j + 1) = p[j + 1] /\ Coefficient(r, j) = r[j]
      BY <1>1, <1>2, <3>1, CoefficientIs
    <3> QED BY <1>2, <2>1, <3>2
  <2>2. CASE j \notin 1 .. k
    <3>1. j + 1 \notin 1 .. k + 1
      BY <2>2
    <3>2. Coefficient(p, j + 1) = 0 /\ Coefficient(r, j) = 0
      BY <1>1, <1>2, <2>2, <3>1, CoefficientIs
    <3> QED BY <3>2
  <2> QED BY <2>1, <2>2
<1>7. c[1] = Mul(p[1], Coefficient(q, 1))
  <2>1. F(1)[1] = Mul(p[1], Coefficient(q, 1))
    BY <1>5
  <2>2. F(1)[1] \in Field
    <3>1. Coefficient(q, 1) \in Field
      BY CoefficientIs
    <3> QED BY <1>1, <2>1, <3>1, Closed
  <2>3. SumTo(F(1), 0 + 1) = Add(SumTo(F(1), 0), F(1)[0 + 1]) /\ SumTo(F(1), 0) = 0
    <3> HIDE DEF F
    <3> QED BY SumUnfolds
  <2>4. SumTo(F(1), 1) = F(1)[1]
    <3> HIDE DEF F
    <3> QED BY <2>2, <2>3, AddLaws
  <2>5. c[1] = SumTo(F(1), 1)
    <3>1. 1 \in 1 .. n + 1
      OBVIOUS
    <3> HIDE DEF F
    <3> QED BY <1>3, <3>1, Zenon
  <2> HIDE DEF F
  <2> QED BY <2>1, <2>4, <2>5
<1>8. ASSUME NEW i \in 1 .. n
      PROVE  c[i + 1] = Add(Mul(p[1], Coefficient(q, i + 1)), s[i])
  <2> DEFINE f == F(i + 1)  g == G(i)
  <2>1. \A j \in 1 .. i + 1 : f[j] \in Field
    <3> TAKE j \in 1 .. i + 1
    <3>1. j \in Int /\ (i + 1) + 1 - j \in Int
      OBVIOUS
    <3>2. Coefficient(p, j) \in Field /\ Coefficient(q, (i + 1) + 1 - j) \in Field
      BY <1>1, <3>1, CoefficientIs
    <3> QED BY <3>2, Closed
  <2>2. \A j \in 1 .. i : g[j] = f[j + 1]
    <3> TAKE j \in 1 .. i
    <3>1. j \in Nat \ {0} /\ j + 1 \in 1 .. i + 1 /\ (i + 1) + 1 - (j + 1) = i + 1 - j
      OBVIOUS
    <3>2. f[j + 1] = Mul(Coefficient(p, j + 1), Coefficient(q, (i + 1) + 1 - (j + 1)))
      BY <3>1
    <3> QED BY <1>6, <3>1, <3>2
  <2>3. f[1] = Mul(p[1], Coefficient(q, i + 1))
    <3>1. 1 \in 1 .. i + 1 /\ (i + 1) + 1 - 1 = i + 1
      OBVIOUS
    <3> QED BY <1>5, <3>1
  <2>4. i \in Nat /\ i + 1 \in 1 .. n + 1
    OBVIOUS
  <2>5. c[i + 1] = SumTo(f, i + 1) /\ s[i] = SumTo(g, i)
    BY <1>3, <1>4, <2>4
  <2> HIDE DEF f, g
  <2>6. SumTo(f, i + 1) = Add(f[1], SumTo(g, i))
    BY <2>1, <2>2, <2>4, SumFirst
  <2> QED BY <2>3, <2>5, <2>6
<1> QED BY <1>7, <1>8 DEF c, s, r

\* One more coefficient in front: the product is p_1 q, and x times the rest.
LEMMA ProductValueStep ==
  ASSUME NEW k \in Nat, NEW p \in Polynomials(k + 1), NEW q \in Seq(Field),
         NEW n \in Nat, Len(q) <= n + 1, NEW x \in Field,
         LET s == RawMul(Shifted(p, k), q, n)
         IN  /\ Evaluate(s, x) = Mul(Evaluate(Shifted(p, k), x), Evaluate(q, x))
             /\ Slope(s, x) = Add(Mul(Slope(Shifted(p, k), x), Evaluate(q, x)),
                                  Mul(Evaluate(Shifted(p, k), x), Slope(q, x)))
  PROVE  LET c == RawMul(p, q, n + 1)
         IN  /\ Evaluate(c, x) = Mul(Evaluate(p, x), Evaluate(q, x))
             /\ Slope(c, x) = Add(Mul(Slope(p, x), Evaluate(q, x)),
                                  Mul(Evaluate(p, x), Slope(q, x)))
<1> DEFINE r == Shifted(p, k)
           c == RawMul(p, q, n + 1)
           s == RawMul(r, q, n)
           w == Resize(q, n + 1)
           e == [i \in 1 .. n + 1 |-> IF i = 1 THEN 0 ELSE s[i - 1]]
           a == p[1]
<1>1. /\ r \in Polynomials(k) /\ a \in Field
      /\ Evaluate(p, x) = Add(a, Mul(x, Evaluate(r, x)))
      /\ Slope(p, x) = Add(Evaluate(r, x), Mul(x, Slope(r, x)))
  BY EvaluateStep, SlopeStep
<1>2. p \in Seq(Field) /\ r \in Seq(Field)
  BY <1>1, PolynomialIsSeq
<1>3. /\ c[1] = Mul(a, Coefficient(q, 1))
      /\ \A i \in 1 .. n : c[i + 1] = Add(Mul(a, Coefficient(q, i + 1)), s[i])
  BY RawMulStep
<1>4. /\ Evaluate(s, x) = Mul(Evaluate(r, x), Evaluate(q, x))
      /\ Slope(s, x) = Add(Mul(Slope(r, x), Evaluate(q, x)), Mul(Evaluate(r, x), Slope(q, x)))
  OBVIOUS
<1> HIDE DEF a, r
<1>5. s \in Polynomials(n) /\ s \in Seq(Field)
  BY <1>2, RawMulType, PolynomialIsSeq
<1>6. c \in Polynomials(n + 1)
  BY <1>2, RawMulType
<1>7. /\ w \in Polynomials(n + 1)
      /\ \A i \in 1 .. n + 1 : w[i] = Coefficient(q, i)
      /\ Evaluate(w, x) = Evaluate(q, x) /\ Slope(w, x) = Slope(q, x)
  <2>1. w \in Polynomials(n + 1) /\ w \in Seq(Field) /\ Agree(q, w)
    BY ResizeAgrees
  <2>2. \A i \in 1 .. n + 1 : w[i] = Coefficient(q, i)
    BY DEF Resize
  <2> HIDE DEF w
  <2> QED BY <2>1, <2>2, AgreeValue, AgreeSlope
<1> HIDE DEF s, c, w
<1>8. /\ e \in Polynomials(n + 1) /\ e[1] = 0 /\ Shifted(e, n) = s
      /\ \A i \in 1 .. n : e[i + 1] = s[i]
  <2>1. \A i \in 1 .. n : s[i] \in Field
    BY <1>5, PolynomialLength
  <2>2. e \in Polynomials(n + 1)
    <3>1. ASSUME NEW i \in 1 .. n + 1, i # 1
          PROVE  s[i - 1] \in Field
      <4>1. i - 1 \in 1 .. n
        BY <3>1
      <4> QED BY <2>1, <4>1
    <3> QED BY <3>1, Closed DEF Polynomials
  <2>3. \A i \in 1 .. n : e[i + 1] = s[i]
    <3> TAKE i \in 1 .. n
    <3>1. i + 1 \in 1 .. n + 1 /\ i + 1 # 1 /\ (i + 1) - 1 = i
      OBVIOUS
    <3> QED BY <3>1
  <2>4. e[1] = 0
    OBVIOUS
  <2>5. s = [i \in 1 .. n |-> s[i]]
    BY <1>5 DEF Polynomials
  <2> HIDE DEF e
  <2>6. Shifted(e, n) = [i \in 1 .. n |-> s[i]]
    BY <2>3 DEF Shifted
  <2> QED BY <2>2, <2>3, <2>4, <2>5, <2>6
<1> HIDE DEF e
<1>9. c = Linear(a, w, e, n + 1)
  <2>1. ASSUME NEW i \in 1 .. n + 1
        PROVE  c[i] = Add(Mul(a, w[i]), e[i])
    <3>1. CASE i = 1
      <4>1. Mul(a, w[1]) \in Field /\ w[1] = Coefficient(q, 1)
        <5>1. 1 \in 1 .. n + 1
          OBVIOUS
        <5>2. w[1] = Coefficient(q, 1) /\ Coefficient(q, 1) \in Field
          BY <1>7, <5>1, CoefficientIs
        <5> QED BY <1>1, <5>2, Closed
      <4> QED BY <1>3, <1>8, <3>1, <4>1, AddLaws
    <3>2. CASE i # 1
      <4>1. i - 1 \in 1 .. n /\ (i - 1) + 1 = i
        BY <3>2
      <4>2. c[(i - 1) + 1] = Add(Mul(a, Coefficient(q, (i - 1) + 1)), s[i - 1])
        BY <1>3, <4>1
      <4>3. e[(i - 1) + 1] = s[i - 1]
        BY <1>8, <4>1
      <4> QED BY <1>7, <4>1, <4>2, <4>3
    <3> QED BY <3>1, <3>2
  <2>2. c = [i \in 1 .. n + 1 |-> c[i]]
    BY <1>6 DEF Polynomials
  <2> QED BY <2>1, <2>2 DEF Linear
<1>10. /\ Evaluate(e, x) = Mul(x, Evaluate(s, x))
       /\ Slope(e, x) = Add(Evaluate(s, x), Mul(x, Slope(s, x)))
  <2>1. /\ Evaluate(e, x) = Add(e[1], Mul(x, Evaluate(s, x)))
        /\ Slope(e, x) = Add(Evaluate(s, x), Mul(x, Slope(s, x)))
    BY <1>8, EvaluateStep, SlopeStep
  <2>2. Mul(x, Evaluate(s, x)) \in Field
    BY <1>5, ValuesInField, Closed
  <2> QED BY <1>8, <2>1, <2>2, AddLaws
<1>11. /\ Evaluate(c, x) = Add(Mul(a, Evaluate(w, x)), Evaluate(e, x))
       /\ Slope(c, x) = Add(Mul(a, Slope(w, x)), Slope(e, x))
  BY <1>1, <1>7, <1>8, <1>9, LinearValue, LinearSlope
<1> DEFINE vr == Evaluate(r, x)  vq == Evaluate(q, x)
           dr == Slope(r, x)  dq == Slope(q, x)
<1>12. vr \in Field /\ vq \in Field /\ dr \in Field /\ dq \in Field
  BY <1>2, ValuesInField
<1>13. Evaluate(c, x) = Add(Mul(a, vq), Mul(x, Mul(vr, vq)))
  BY <1>4, <1>7, <1>10, <1>11
<1>14. Slope(c, x) = Add(Mul(a, dq), Add(Mul(vr, vq), Mul(x, Add(Mul(dr, vq), Mul(vr, dq)))))
  BY <1>4, <1>7, <1>10, <1>11
<1>15. /\ Evaluate(p, x) = Add(a, Mul(x, vr))
       /\ Slope(p, x) = Add(vr, Mul(x, dr))
  BY <1>1
<1> HIDE DEF vr, vq, dr, dq
<1>16. Evaluate(c, x) = Mul(Evaluate(p, x), vq)
  BY <1>1, <1>12, <1>13, <1>15, ProductStep
<1>17. Slope(c, x) = Add(Mul(Slope(p, x), vq), Mul(Evaluate(p, x), dq))
  BY <1>1, <1>12, <1>14, <1>15, SlopeProductStep
<1> QED BY <1>16, <1>17 DEF vq, dq, c

\* The value of the product and its derivative.
LEMMA RawMulValue ==
  ASSUME NEW q \in Seq(Field), NEW x \in Field
  PROVE  \A k \in Nat : \A p \in Polynomials(k) : \A n \in Nat :
           k + Len(q) <= n + 1 =>
             /\ Evaluate(RawMul(p, q, n), x) = Mul(Evaluate(p, x), Evaluate(q, x))
             /\ Slope(RawMul(p, q, n), x) = Add(Mul(Slope(p, x), Evaluate(q, x)),
                                                Mul(Evaluate(p, x), Slope(q, x)))
<1> DEFINE Holds(p, n) ==
             /\ Evaluate(RawMul(p, q, n), x) = Mul(Evaluate(p, x), Evaluate(q, x))
             /\ Slope(RawMul(p, q, n), x) = Add(Mul(Slope(p, x), Evaluate(q, x)),
                                                Mul(Evaluate(p, x), Slope(q, x)))
           S == {k \in Nat : \A p \in Polynomials(k) : \A n \in Nat :
                    k + Len(q) <= n + 1 => Holds(p, n)}
<1>0. Len(q) \in Nat /\ Evaluate(q, x) \in Field /\ Slope(q, x) \in Field
  BY SeqIsPolynomial, ValuesInField
<1>1. ASSUME NEW p \in Polynomials(0)
      PROVE  Evaluate(p, x) = 0 /\ Slope(p, x) = 0
  <2>1. p \in Seq(Field) /\ Len(p) = 0
    BY PolynomialIsSeq
  <2>2. Derivative(p) \in Polynomials(0)
    BY <2>1, DerivativeIs, SeqIsPolynomial
  <2> QED BY <2>2, EmptyPolynomial DEF Slope
<1>2. 0 \in S
  <2> SUFFICES ASSUME NEW p \in Polynomials(0), NEW n \in Nat
               PROVE  Holds(p, n)
    BY DEF S
  <2>1. p \in Seq(Field) /\ Len(p) = 0
    BY PolynomialIsSeq
  <2> DEFINE c == RawMul(p, q, n)  z == <<>>
  <2>2. z \in Polynomials(0) /\ z \in Seq(Field) /\ Len(z) = 0
    BY DEF Polynomials
  <2>3. c \in Polynomials(n) /\ c \in Seq(Field) /\ Len(c) = n
    BY <2>1, RawMulType, PolynomialIsSeq
  <2>4. \A i \in 1 .. n : c[i] = 0
    <3> TAKE i \in 1 .. n
    <3> DEFINE f == [j \in 1 .. i |-> Mul(Coefficient(p, j), Coefficient(q, i + 1 - j))]
    <3>1. \A j \in 0 + 1 .. i : f[j] = 0
      <4> TAKE j \in 0 + 1 .. i
      <4>1. j \in Int /\ i + 1 - j \in Int /\ j \in 1 .. i /\ j \notin 1 .. 0
        OBVIOUS
      <4>2. Coefficient(p, j) = 0 /\ Coefficient(q, i + 1 - j) \in Field
        BY <2>1, <4>1, CoefficientIs
      <4> QED BY <4>1, <4>2, MulLaws
    <3>2. c[i] = SumTo(f, i)
      BY DEF RawMul
    <3> HIDE DEF f, c
    <3>3. i \in Nat /\ 0 <= i /\ \A j \in 1 .. 0 : f[j] \in Field
      OBVIOUS
    <3>4. SumTo(f, i) = SumTo(f, 0)
      BY <3>1, <3>3, SumExtends
    <3> QED BY <3>2, <3>4, SumUnfolds
  <2> HIDE DEF c, z
  <2>5. Agree(c, z)
    <3> SUFFICES ASSUME NEW i \in Nat \ {0}
                 PROVE  Coefficient(c, i) = 0 /\ Coefficient(z, i) = 0
      BY DEF Agree
    <3>1. i \in Int /\ i \notin 1 .. 0
      OBVIOUS
    <3>2. Coefficient(z, i) = 0
      BY <2>2, <3>1, CoefficientIs
    <3>3. i \in 1 .. n => c[i] = 0
      BY <2>4
    <3> QED BY <2>3, <3>1, <3>2, <3>3, CoefficientIs
  <2>6. Evaluate(c, x) = 0 /\ Slope(c, x) = 0
    <3>1. c \in Seq(Field) /\ z \in Seq(Field)
      BY <2>2, <2>3
    <3>2. Evaluate(c, x) = Evaluate(z, x)
      BY <1>0, <2>5, <3>1, AgreeValue
    <3>3. Slope(c, x) = Slope(z, x)
      BY <1>0, <2>5, <3>1, AgreeSlope
    <3> QED BY <1>1, <2>2, <3>2, <3>3
  <2>7. Mul(0, Evaluate(q, x)) = 0 /\ Mul(0, Slope(q, x)) = 0 /\ Add(0, 0) = 0
    BY <1>0, MulLaws, AddLaws, Closed
  <2> QED BY <1>1, <2>6, <2>7 DEF c
<1>3. ASSUME NEW k \in Nat, k \in S
      PROVE  k + 1 \in S
  <2> SUFFICES ASSUME NEW p \in Polynomials(k + 1), NEW n \in Nat,
                      (k + 1) + Len(q) <= n + 1
               PROVE  Holds(p, n)
    BY DEF S
  <2>1. CASE n = 0
    <3>1. k = 0 /\ Len(q) = 0
      BY <1>0, <2>1
    <3>2. q \in Polynomials(0)
      BY <3>1, SeqIsPolynomial
    <3>3. p \in Seq(Field)
      BY PolynomialIsSeq
    <3>4. RawMul(p, q, n) \in Polynomials(0)
      BY <2>1, <3>3, RawMulType
    <3>5. /\ Evaluate(q, x) = 0 /\ Slope(q, x) = 0
          /\ Evaluate(RawMul(p, q, n), x) = 0 /\ Slope(RawMul(p, q, n), x) = 0
      BY <1>1, <3>2, <3>4
    <3>6. Mul(Evaluate(p, x), 0) = 0 /\ Mul(Slope(p, x), 0) = 0 /\ Add(0, 0) = 0
      BY <3>3, ValuesInField, MulLaws, AddLaws, Closed
    <3> QED BY <3>5, <3>6
  <2>2. CASE n # 0
    <3> DEFINE m == n - 1
    <3>1. m \in Nat /\ n = m + 1 /\ k + Len(q) <= m + 1 /\ Len(q) <= m + 1
      BY <1>0, <2>2
    <3> HIDE DEF m
    <3>2. Shifted(p, k) \in Polynomials(k)
      BY EvaluateStep
    <3>3. Holds(Shifted(p, k), m)
      BY <1>3, <3>1, <3>2 DEF S
    <3> QED BY <3>1, <3>3, ProductValueStep
  <2> QED BY <2>1, <2>2
<1> HIDE DEF S
<1>4. Nat \subseteq S
  BY <1>2, <1>3, Induction
<1> QED BY <1>4 DEF S

\* No leading zeros.
Trimmed(p) == p # <<>> => p[Len(p)] # 0

LEMMA PolyMulIs ==
  ASSUME NEW p \in Seq(Field), NEW q \in Seq(Field)
  PROVE  LET c == PolyMul(p, q)
         IN  /\ c \in Seq(Field) /\ Trimmed(c)
             /\ Len(p) + Len(q) > 0 => Len(c) <= Len(p) + Len(q) - 1
             /\ Len(p) + Len(q) > 0 => Agree(RawMul(p, q, Len(p) + Len(q) - 1), c)
             /\ \A x \in Field :
                   /\ Evaluate(c, x) = Mul(Evaluate(p, x), Evaluate(q, x))
                   /\ Slope(c, x) = Add(Mul(Slope(p, x), Evaluate(q, x)),
                                        Mul(Evaluate(p, x), Slope(q, x)))
<1> DEFINE n == IF Len(p) + Len(q) = 0 THEN 0 ELSE Len(p) + Len(q) - 1
           d == RawMul(p, q, n)
<1>1. Len(p) \in Nat /\ Len(q) \in Nat /\ p \in Polynomials(Len(p))
  BY SeqIsPolynomial
<1>2. n \in Nat /\ 1 .. Len(p) + Len(q) - 1 = 1 .. n /\ Len(p) + Len(q) <= n + 1
  BY <1>1
<1>3. PolyMul(p, q) = Truncate(d)
  <2> HIDE DEF n
  <2> QED BY <1>2 DEF PolyMul, RawMul
<1>4. d \in Polynomials(n) /\ d \in Seq(Field) /\ Len(d) = n
  <2> HIDE DEF n
  <2>1. d \in Polynomials(n)
    BY <1>2, RawMulType
  <2> HIDE DEF d
  <2> QED BY <1>2, <2>1, PolynomialIsSeq
<1>5. ASSUME NEW x \in Field
      PROVE  /\ Evaluate(d, x) = Mul(Evaluate(p, x), Evaluate(q, x))
             /\ Slope(d, x) = Add(Mul(Slope(p, x), Evaluate(q, x)),
                                  Mul(Evaluate(p, x), Slope(q, x)))
  <2> HIDE DEF n
  <2> QED BY <1>1, <1>2, RawMulValue
<1> HIDE DEF d
<1> DEFINE c == Truncate(d)
<1>6. c \in Seq(Field) /\ Len(c) <= n /\ Agree(d, c) /\ Trimmed(c)
  BY <1>4, TruncateIs DEF Trimmed
<1> HIDE DEF c
<1>7. \A x \in Field : Evaluate(c, x) = Evaluate(d, x) /\ Slope(c, x) = Slope(d, x)
  BY <1>4, <1>6, AgreeValue, AgreeSlope
<1>8. Len(p) + Len(q) > 0 => n = Len(p) + Len(q) - 1
  BY <1>1
<1> HIDE DEF n
<1>9. Len(p) + Len(q) > 0 => /\ Len(c) <= Len(p) + Len(q) - 1
                             /\ Agree(RawMul(p, q, Len(p) + Len(q) - 1), c)
  BY <1>6, <1>8 DEF d
<1> QED BY <1>3, <1>5, <1>6, <1>7, <1>9 DEF c

LEMMA AgreeLength ==
  ASSUME NEW p \in Seq(Field), NEW q \in Seq(Field), Agree(p, q),
         Len(q) <= Len(p), Len(p) # 0, p[Len(p)] # 0
  PROVE  Len(q) = Len(p) /\ q[Len(p)] = p[Len(p)]
<1> DEFINE n == Len(p)
<1>1. n \in Nat /\ Len(q) \in Nat /\ n \in Nat \ {0} /\ n \in 1 .. Len(p) /\ n \in Int
  BY SeqIsPolynomial
<1>2. Coefficient(p, n) = p[n] /\ Coefficient(q, n) = p[n]
  BY <1>1, CoefficientIs DEF Agree
<1>3. n \in 1 .. Len(q)
  BY <1>1, <1>2, CoefficientIs
<1>4. Coefficient(q, n) = q[n]
  BY <1>1, <1>3, CoefficientIs
<1> QED BY <1>1, <1>2, <1>3, <1>4

Monic(p) == p \in Seq(Field) /\ Len(p) # 0 /\ p[Len(p)] = 1

LEMMA MonicProduct ==
  ASSUME NEW p, Monic(p), NEW q, Monic(q)
  PROVE  Monic(PolyMul(p, q)) /\ Len(PolyMul(p, q)) = Len(p) + Len(q) - 1
<1> DEFINE n == Len(p) + Len(q) - 1
           m == Len(p)
           d == RawMul(p, q, n)
           c == PolyMul(p, q)
           f == [j \in 1 .. n |-> Mul(Coefficient(p, j), Coefficient(q, n + 1 - j))]
<1>1. /\ p \in Seq(Field) /\ q \in Seq(Field) /\ p[m] = 1 /\ q[Len(q)] = 1
      /\ Len(p) \in Nat \ {0} /\ Len(q) \in Nat \ {0}
  BY SeqIsPolynomial DEF Monic
<1>2. n \in Nat \ {0} /\ m \in 1 .. n /\ n + 1 - m = Len(q) /\ Len(p) + Len(q) > 0
  BY <1>1
<1>3. c \in Seq(Field) /\ Len(c) <= n /\ Agree(d, c)
  BY <1>1, <1>2, PolyMulIs
<1>4. d \in Polynomials(n) /\ d \in Seq(Field) /\ Len(d) = n
  <2> HIDE DEF n
  <2>1. d \in Polynomials(n)
    BY <1>1, <1>2, RawMulType
  <2> HIDE DEF d
  <2> QED BY <1>2, <2>1, PolynomialIsSeq
<1>5. d[n] = SumTo(f, n)
  <2>1. n \in 1 .. n
    BY <1>2
  <2> HIDE DEF n
  <2> QED BY <2>1 DEF RawMul
<1>6. \A j \in 1 .. n : f[j] = IF j = m THEN 1 ELSE 0
  <2> TAKE j \in 1 .. n
  <2>1. j \in Int /\ n + 1 - j \in Int
    BY <1>2
  <2>2. Coefficient(p, j) \in Field /\ Coefficient(q, n + 1 - j) \in Field
    BY <1>1, <2>1, CoefficientIs
  <2>3. f[j] = Mul(Coefficient(p, j), Coefficient(q, n + 1 - j))
    OBVIOUS
  <2>4. CASE j = m
    <3>1. Coefficient(p, j) = 1
      BY <1>1, <2>1, <2>4, CoefficientIs
    <3>2. n + 1 - j = Len(q) /\ n + 1 - j \in 1 .. Len(q)
      BY <1>1, <1>2, <2>4
    <3>3. Coefficient(q, n + 1 - j) = 1
      BY <1>1, <2>1, <3>2, CoefficientIs
    <3> QED BY <2>3, <2>4, <3>1, <3>3, MulLaws, Closed
  <2>5. CASE j > m
    <3>1. j \notin 1 .. Len(p) /\ j # m
      BY <1>1, <2>5
    <3>2. Coefficient(p, j) = 0
      BY <1>1, <2>1, <3>1, CoefficientIs
    <3> HIDE DEF f, n, m
    <3> QED BY <2>2, <2>3, <3>1, <3>2, MulLaws
  <2>6. CASE j < m
    <3>1. n + 1 - j \notin 1 .. Len(q) /\ j # m
      BY <1>1, <2>6
    <3>2. Coefficient(q, n + 1 - j) = 0
      BY <1>1, <2>1, <3>1, CoefficientIs
    <3> HIDE DEF f, n, m
    <3> QED BY <2>2, <2>3, <3>1, <3>2, MulLaws
  <2> QED BY <1>1, <2>4, <2>5, <2>6
<1> HIDE DEF f
<1>7. SumTo(f, n) = 1
  BY <1>2, <1>6, SumSingle, Closed
<1> HIDE DEF d, c
<1>8. Len(c) = n /\ c[n] = 1
  <2> HIDE DEF n
  <2>1. Len(d) # 0 /\ d[Len(d)] = 1 /\ 1 # 0
    BY <1>2, <1>4, <1>5, <1>7
  <2>2. Len(c) = Len(d) /\ c[Len(d)] = d[Len(d)]
    BY <1>3, <1>4, <2>1, AgreeLength
  <2> QED BY <1>4, <2>1, <2>2
<1> QED BY <1>2, <1>3, <1>8 DEF Monic, c

LEMMA PolyAddIs ==
  ASSUME NEW p \in Seq(Field), NEW q \in Seq(Field)
  PROVE  LET c == PolyAdd(p, q)
         IN  /\ c \in Seq(Field) /\ Trimmed(c) /\ Len(c) <= Longer(p, q)
             /\ \A x \in Field : Evaluate(c, x) = Add(Evaluate(p, x), Evaluate(q, x))
<1> DEFINE n == Longer(p, q)
           a == Resize(p, n)  b == Resize(q, n)
           d == SumOfPolys(a, b, n)
           c == Truncate(d)
<1>1. n \in Nat /\ Len(p) <= n /\ Len(q) <= n
  BY SeqIsPolynomial DEF Longer
<1>2. /\ a \in Polynomials(n) /\ b \in Polynomials(n)
      /\ \A x \in Field : Evaluate(a, x) = Evaluate(p, x) /\ Evaluate(b, x) = Evaluate(q, x)
  <2> HIDE DEF n
  <2>1. a \in Polynomials(n) /\ b \in Polynomials(n)
    BY <1>1, ResizeAgrees
  <2>2. ASSUME NEW x \in Field
        PROVE  Evaluate(a, x) = Evaluate(p, x) /\ Evaluate(b, x) = Evaluate(q, x)
    BY <1>1, ResizeValue
  <2> QED BY <2>1, <2>2
<1>3. PolyAdd(p, q) = c
  BY DEF PolyAdd, SumOfPolys, Resize
<1> HIDE DEF a, b, c, n
<1>4. /\ d \in Polynomials(n)
      /\ \A x \in Field : Evaluate(d, x) = Add(Evaluate(a, x), Evaluate(b, x))
  BY <1>1, <1>2, EvaluateSumOfPolys
<1> HIDE DEF d
<1>5. d \in Seq(Field) /\ Len(d) = n
  BY <1>1, <1>4, PolynomialIsSeq
<1>6. c \in Seq(Field) /\ Trimmed(c) /\ Len(c) <= n /\ Agree(d, c)
  BY <1>5, TruncateIs DEF c, Trimmed
<1>7. \A x \in Field : Evaluate(c, x) = Evaluate(d, x)
  BY <1>5, <1>6, AgreeValue
<1> QED BY <1>2, <1>3, <1>4, <1>6, <1>7 DEF n

LEMMA PolySubIs ==
  ASSUME NEW p \in Seq(Field), NEW q \in Seq(Field)
  PROVE  LET c == PolySub(p, q)
         IN  /\ c \in Seq(Field) /\ Trimmed(c) /\ Len(c) <= Longer(p, q)
             /\ \A i \in Nat \ {0} :
                   Coefficient(c, i) = Sub(Coefficient(p, i), Coefficient(q, i))
             /\ \A x \in Field : Evaluate(c, x) = Sub(Evaluate(p, x), Evaluate(q, x))
<1> DEFINE n == Longer(p, q)
           a == Resize(p, n)  b == Resize(q, n)
           d == [i \in 1 .. n |-> Sub(Coefficient(p, i), Coefficient(q, i))]
           c == Truncate(d)
<1>1. n \in Nat /\ Len(p) <= n /\ Len(q) <= n
  BY SeqIsPolynomial DEF Longer
<1>2. /\ a \in Polynomials(n) /\ b \in Polynomials(n)
      /\ \A x \in Field : Evaluate(a, x) = Evaluate(p, x) /\ Evaluate(b, x) = Evaluate(q, x)
  <2> HIDE DEF n
  <2>1. a \in Polynomials(n) /\ b \in Polynomials(n)
    BY <1>1, ResizeAgrees
  <2>2. ASSUME NEW x \in Field
        PROVE  Evaluate(a, x) = Evaluate(p, x) /\ Evaluate(b, x) = Evaluate(q, x)
    BY <1>1, ResizeValue
  <2> QED BY <2>1, <2>2
<1>3. PolySub(p, q) = c
  BY DEF PolySub
<1>4. \A i \in Nat : Coefficient(p, i) \in Field /\ Coefficient(q, i) \in Field
  BY CoefficientIs
<1>5. d \in Polynomials(n) /\ a = SumOfPolys(d, b, n)
  <2>1. \A i \in 1 .. n : Sub(Coefficient(p, i), Coefficient(q, i)) \in Field
    <3> TAKE i \in 1 .. n
    <3>1. i \in Nat
      OBVIOUS
    <3> QED BY <1>4, <3>1, Closed
  <2>2. \A i \in 1 .. n : Coefficient(p, i)
                            = Add(Sub(Coefficient(p, i), Coefficient(q, i)), Coefficient(q, i))
    BY <1>4, SubLaws
  <2> QED BY <2>1, <2>2 DEF Polynomials, Resize, SumOfPolys
<1>6. \A i \in 1 .. n : d[i] = Sub(Coefficient(p, i), Coefficient(q, i))
  OBVIOUS
<1> HIDE DEF a, b, c, d, n
<1>7. d \in Seq(Field) /\ Len(d) = n
  BY <1>1, <1>5, PolynomialIsSeq
<1>8. c \in Seq(Field) /\ Trimmed(c) /\ Len(c) <= n /\ Agree(d, c)
  BY <1>7, TruncateIs DEF c, Trimmed
<1>9. ASSUME NEW x \in Field
      PROVE  Evaluate(c, x) = Sub(Evaluate(p, x), Evaluate(q, x))
  <2>1. Evaluate(a, x) = Add(Evaluate(d, x), Evaluate(b, x))
    BY <1>1, <1>2, <1>5, EvaluateSumOfPolys
  <2>2. Evaluate(d, x) \in Field /\ Evaluate(q, x) \in Field
    BY <1>7, ValuesInField
  <2>3. Evaluate(c, x) = Evaluate(d, x)
    BY <1>7, <1>8, AgreeValue
  <2>4. Sub(Add(Evaluate(d, x), Evaluate(q, x)), Evaluate(q, x)) = Evaluate(d, x)
    BY <2>2, SubLaws
  <2> QED BY <1>2, <2>1, <2>3, <2>4
<1>10. ASSUME NEW i \in Nat \ {0}
       PROVE  Coefficient(c, i) = Sub(Coefficient(p, i), Coefficient(q, i))
  <2>1. Coefficient(c, i) = Coefficient(d, i)
    BY <1>8 DEF Agree
  <2>2. CASE i \in 1 .. n
    BY <1>6, <1>7, <2>1, <2>2, CoefficientIs
  <2>3. CASE i \notin 1 .. n
    <3>1. i \notin 1 .. Len(p) /\ i \notin 1 .. Len(q) /\ i \in Int
      BY <1>1, <2>3, SeqIsPolynomial
    <3>2. Coefficient(p, i) = 0 /\ Coefficient(q, i) = 0 /\ Coefficient(d, i) = 0
      BY <1>7, <2>3, <3>1, CoefficientIs
    <3>3. Sub(0, 0) = 0
      BY SubLaws, Closed
    <3> QED BY <2>1, <3>2, <3>3
  <2> QED BY <2>2, <2>3
<1> QED BY <1>3, <1>8, <1>9, <1>10 DEF n

-----------------------------------------------------------------------------
(***************************************************************************)
(* The products the tree stands for.                                       *)
(***************************************************************************)

LEMMA ProductSplit ==
  ASSUME NEW f, NEW g, NEW n \in Nat, NEW m \in Nat,
         \A i \in 1 .. n + m : f[i] \in Field, \A i \in 1 .. m : g[i] = f[n + i]
  PROVE  ProductTo(f, n + m) = Mul(ProductTo(f, n), ProductTo(g, m))
<1> DEFINE S == {k \in 0 .. m : ProductTo(f, n + k) = Mul(ProductTo(f, n), ProductTo(g, k))}
<1>0. ProductTo(f, n) \in Field
  BY ProductInField
<1>1. 0 \in S
  <2>1. ProductTo(g, 0) = 1 /\ Mul(ProductTo(f, n), 1) = ProductTo(f, n) /\ n + 0 = n
    BY <1>0, ProductUnfolds, MulLaws
  <2>2. 0 \in 0 .. m
    OBVIOUS
  <2> QED BY <2>1, <2>2
<1>2. ASSUME NEW k \in 0 .. m - 1, k \in S
      PROVE  k + 1 \in S
  <2>1. /\ n + k \in Nat /\ k \in Nat /\ k + 1 \in 1 .. m /\ k + 1 \in 0 .. m
        /\ n + (k + 1) = (n + k) + 1 /\ (n + k) + 1 \in 1 .. n + m
    OBVIOUS
  <2>2. ProductTo(f, (n + k) + 1) = Mul(ProductTo(f, n + k), f[(n + k) + 1])
    BY <2>1, ProductUnfolds
  <2>3. ProductTo(g, k + 1) = Mul(ProductTo(g, k), g[k + 1])
    BY <2>1, ProductUnfolds
  <2>4. g[k + 1] = f[(n + k) + 1] /\ g[k + 1] \in Field
    BY <2>1
  <2>5. ProductTo(g, k) \in Field
    <3>1. \A i \in 1 .. k : g[i] \in Field
      <4> TAKE i \in 1 .. k
      <4>1. i \in 1 .. m /\ n + i \in 1 .. n + m
        BY <2>1
      <4> QED BY <4>1
    <3> QED BY <2>1, <3>1, ProductInField
  <2>6. ProductTo(f, n + k) = Mul(ProductTo(f, n), ProductTo(g, k))
    BY <1>2
  <2>7. ProductTo(f, n + (k + 1)) = Mul(ProductTo(f, n), ProductTo(g, k + 1))
    BY <1>0, <2>1, <2>2, <2>3, <2>4, <2>5, <2>6, MulAssociates
  <2> QED BY <2>1, <2>7
<1> HIDE DEF S
<1>3. 0 .. m \subseteq S
  BY <1>1, <1>2, InductionUpTo
<1>4. m \in 0 .. m
  OBVIOUS
<1> QED BY <1>3, <1>4 DEF S

\* A product is zero when one of its factors is.
LEMMA ProductZero ==
  ASSUME NEW f, NEW n \in Nat, \A i \in 1 .. n : f[i] \in Field
  PROVE  ProductTo(f, n) = 0 <=> \E i \in 1 .. n : f[i] = 0
<1> DEFINE S == {m \in 0 .. n : ProductTo(f, m) = 0 <=> \E i \in 1 .. m : f[i] = 0}
<1>1. 0 \in S
  <2>1. ProductTo(f, 0) = 1 /\ 1 # 0 /\ 1 .. 0 = {}
    BY ProductUnfolds
  <2> QED BY <2>1
<1>2. ASSUME NEW k \in 0 .. n - 1, k \in S
      PROVE  k + 1 \in S
  <2>1. k \in Nat /\ k + 1 \in 1 .. n /\ k + 1 \in 0 .. n /\ 1 .. k + 1 = (1 .. k) \cup {k + 1}
    OBVIOUS
  <2>2. ProductTo(f, k + 1) = Mul(ProductTo(f, k), f[k + 1])
    BY <2>1, ProductUnfolds
  <2>3. ProductTo(f, k) \in Field /\ f[k + 1] \in Field
    <3>1. \A i \in 1 .. k : f[i] \in Field
      BY <2>1
    <3> QED BY <2>1, <3>1, ProductInField
  <2>4. ProductTo(f, k + 1) = 0 <=> ProductTo(f, k) = 0 \/ f[k + 1] = 0
    BY <2>2, <2>3, NoZeroDivisors, MulLaws
  <2> QED BY <1>2, <2>1, <2>4
<1> HIDE DEF S
<1>3. 0 .. n \subseteq S
  BY <1>1, <1>2, InductionUpTo
<1>4. n \in 0 .. n
  OBVIOUS
<1> QED BY <1>3, <1>4 DEF S

\* The value at x of the product of the x - v[i].
Vanishing(v, x) == ProductTo([i \in 1 .. Len(v) |-> Sub(x, v[i])], Len(v))

\* The product of the differences of v[k] to the other points.
Spread(v, k) ==
    ProductTo([j \in 1 .. Len(v) |-> IF j = k THEN 1 ELSE Sub(v[k], v[j])], Len(v))

LEMMA DomainLength ==
  ASSUME NEW v \in Domains
  PROVE  v \in Seq(Field) /\ Len(v) \in Nat \ {0} /\ \A i \in 1 .. Len(v) : v[i] \in Field
<1>1. v \in Seq(Field) /\ v # <<>>
  BY DEF Domains
<1>2. Len(v) \in Nat \ {0}
  BY <1>1, EmptySeq
<1> QED BY <1>1, <1>2, SeqIsPolynomial

LEMMA VanishingAtPoint ==
  ASSUME NEW v \in Domains, NEW k \in 1 .. Len(v)
  PROVE  Vanishing(v, v[k]) = 0
<1> DEFINE f == [i \in 1 .. Len(v) |-> Sub(v[k], v[i])]
<1>1. \A i \in 1 .. Len(v) : f[i] \in Field
  BY DomainLength, Closed
<1>2. f[k] = 0
  BY DomainLength, SubLaws
<1> HIDE DEF f
<1>3. Len(v) \in Nat
  BY DomainLength
<1>4. ProductTo(f, Len(v)) = 0
  BY <1>1, <1>2, <1>3, ProductZero
<1> QED BY <1>4 DEF Vanishing, f

LEMMA SpreadIs ==
  ASSUME NEW v \in Domains, NEW k \in 1 .. Len(v)
  PROVE  /\ Spread(v, k) \in Field
         /\ Spread(v, k) = 0 <=> \E j \in 1 .. Len(v) : j # k /\ v[j] = v[k]
<1> DEFINE f == [j \in 1 .. Len(v) |-> IF j = k THEN 1 ELSE Sub(v[k], v[j])]
<1>1. Len(v) \in Nat /\ \A i \in 1 .. Len(v) : v[i] \in Field
  BY DomainLength
<1>2. ASSUME NEW j \in 1 .. Len(v)
      PROVE  f[j] \in Field /\ (f[j] = 0 <=> j # k /\ v[j] = v[k])
  <2>1. v[k] \in Field /\ v[j] \in Field
    BY <1>1
  <2>2. Sub(v[k], v[j]) \in Field
    BY <2>1, Closed
  <2>3. Sub(v[k], v[j]) = 0 <=> v[k] = v[j]
    BY <2>1, SubLaws
  <2> QED BY <2>2, <2>3, Closed
<1> HIDE DEF f
<1>3. ProductTo(f, Len(v)) \in Field
  BY <1>1, <1>2, ProductInField
<1>4. ProductTo(f, Len(v)) = 0 <=> \E i \in 1 .. Len(v) : f[i] = 0
  BY <1>1, <1>2, ProductZero
<1> QED BY <1>2, <1>3, <1>4 DEF Spread, f

LEMMA ProductsSplit ==
  ASSUME NEW v \in Domains, Len(v) # 1
  PROVE  LET a == FirstHalf(v)
             b == SecondHalf(v)
             h == Half(v)
         IN  /\ \A x \in Field : Vanishing(v, x) = Mul(Vanishing(a, x), Vanishing(b, x))
             /\ \A k \in 1 .. h : Spread(v, k) = Mul(Spread(a, k), Vanishing(b, v[k]))
             /\ \A k \in h + 1 .. Len(v) :
                   Spread(v, k) = Mul(Vanishing(a, v[k]), Spread(b, k - h))
<1> DEFINE a == FirstHalf(v)
           b == SecondHalf(v)
           h == Half(v)
           m == Len(v) - h
<1>1. /\ Len(v) \in Nat /\ h \in 1 .. Len(v) - 1
      /\ a \in Domains /\ b \in Domains /\ Len(a) = h /\ Len(b) = m
      /\ \A i \in 1 .. h : a[i] = v[i]
      /\ \A i \in 1 .. m : b[i] = v[h + i]
  BY Halves
<1>2. m \in Nat /\ h \in Nat /\ h + m = Len(v) /\ \A i \in 1 .. m : h + i \in 1 .. Len(v)
  BY <1>1
<1>3. \A i \in 1 .. Len(v) : v[i] \in Field
  BY DomainLength
<1> HIDE DEF a, b, h, m
<1>4. ASSUME NEW x \in Field
      PROVE  Vanishing(v, x) = Mul(Vanishing(a, x), Vanishing(b, x))
  <2> DEFINE f == [i \in 1 .. Len(v) |-> Sub(x, v[i])]
             g == [i \in 1 .. h |-> Sub(x, a[i])]
             e == [i \in 1 .. m |-> Sub(x, b[i])]
  <2>1. \A i \in 1 .. h + m : f[i] \in Field
    BY <1>2, <1>3, Closed
  <2>2. \A i \in 1 .. m : e[i] = f[h + i]
    BY <1>1, <1>2
  <2>3. \A i \in 1 .. h : f[i] = g[i]
    BY <1>1, <1>2
  <2>4. /\ Vanishing(v, x) = ProductTo(f, h + m) /\ Vanishing(a, x) = ProductTo(g, h)
        /\ Vanishing(b, x) = ProductTo(e, m)
    BY <1>1, <1>2 DEF Vanishing
  <2> HIDE DEF f, g, e
  <2>5. ProductTo(f, h + m) = Mul(ProductTo(f, h), ProductTo(e, m))
    <3>1. h \in Nat /\ m \in Nat
      BY <1>2
    <3> QED BY ONLY <3>1, <2>1, <2>2, ProductSplit
  <2>6. ProductTo(f, h) = ProductTo(g, h)
    BY <1>2, <2>3, SameProduct
  <2> QED BY <2>4, <2>5, <2>6
<1>5. ASSUME NEW k \in 1 .. h
      PROVE  Spread(v, k) = Mul(Spread(a, k), Vanishing(b, v[k]))
  <2> DEFINE f == [j \in 1 .. Len(v) |-> IF j = k THEN 1 ELSE Sub(v[k], v[j])]
             g == [j \in 1 .. h |-> IF j = k THEN 1 ELSE Sub(a[k], a[j])]
             e == [i \in 1 .. m |-> Sub(v[k], b[i])]
  <2>0. k \in 1 .. Len(v) /\ a[k] = v[k]
    BY <1>1, <1>2
  <2>1. \A i \in 1 .. h + m : f[i] \in Field
    BY <1>2, <1>3, <2>0, Closed
  <2>2. \A i \in 1 .. m : e[i] = f[h + i]
    <3> TAKE i \in 1 .. m
    <3>1. h + i # k /\ h + i \in 1 .. Len(v)
      BY <1>2
    <3> QED BY <1>1, <3>1
  <2>3. \A i \in 1 .. h : f[i] = g[i]
    BY <1>1, <1>2, <2>0
  <2>4. /\ Spread(v, k) = ProductTo(f, h + m) /\ Spread(a, k) = ProductTo(g, h)
        /\ Vanishing(b, v[k]) = ProductTo(e, m)
    BY <1>1, <1>2 DEF Vanishing, Spread
  <2> HIDE DEF f, g, e
  <2>5. ProductTo(f, h + m) = Mul(ProductTo(f, h), ProductTo(e, m))
    <3>1. h \in Nat /\ m \in Nat
      BY <1>2
    <3> QED BY ONLY <3>1, <2>1, <2>2, ProductSplit
  <2>6. ProductTo(f, h) = ProductTo(g, h)
    BY <1>2, <2>3, SameProduct
  <2> QED BY <2>4, <2>5, <2>6
<1>6. ASSUME NEW k \in h + 1 .. Len(v)
      PROVE  Spread(v, k) = Mul(Vanishing(a, v[k]), Spread(b, k - h))
  <2> DEFINE f == [j \in 1 .. Len(v) |-> IF j = k THEN 1 ELSE Sub(v[k], v[j])]
             g == [i \in 1 .. h |-> Sub(v[k], a[i])]
             e == [j \in 1 .. m |-> IF j = k - h THEN 1 ELSE Sub(b[k - h], b[j])]
  <2>0. k \in 1 .. Len(v) /\ k - h \in 1 .. m /\ h + (k - h) = k /\ b[k - h] = v[k]
    <3>1. k \in 1 .. Len(v) /\ k - h \in 1 .. m /\ h + (k - h) = k
      BY <1>1, <1>2
    <3> QED BY <1>1, <3>1
  <2>1. \A i \in 1 .. h + m : f[i] \in Field
    BY <1>2, <1>3, <2>0, Closed
  <2>2. \A i \in 1 .. m : e[i] = f[h + i]
    <3> TAKE i \in 1 .. m
    <3>1. h + i \in 1 .. Len(v) /\ (h + i = k <=> i = k - h)
      BY <1>2, <2>0
    <3> QED BY <1>1, <2>0, <3>1
  <2>3. \A i \in 1 .. h : f[i] = g[i]
    <3> TAKE i \in 1 .. h
    <3>1. i # k /\ i \in 1 .. Len(v)
      BY <1>2
    <3> QED BY <1>1, <3>1
  <2>4. /\ Spread(v, k) = ProductTo(f, h + m) /\ Vanishing(a, v[k]) = ProductTo(g, h)
        /\ Spread(b, k - h) = ProductTo(e, m)
    BY <1>1, <1>2 DEF Vanishing, Spread
  <2> HIDE DEF f, g, e
  <2>5. ProductTo(f, h + m) = Mul(ProductTo(f, h), ProductTo(e, m))
    <3>1. h \in Nat /\ m \in Nat
      BY <1>2
    <3> QED BY ONLY <3>1, <2>1, <2>2, ProductSplit
  <2>6. ProductTo(f, h) = ProductTo(g, h)
    BY <1>2, <2>3, SameProduct
  <2> QED BY <2>4, <2>5, <2>6
<1> QED BY <1>4, <1>5, <1>6 DEF a, b, h

-----------------------------------------------------------------------------
(***************************************************************************)
(* SubproductTree::new.                                                    *)
(***************************************************************************)

IsTree(m) == m = [v \in Domains |->
                    IF Len(v) = 1 THEN <<Neg(v[1]), 1>>
                    ELSE PolyMul(m[FirstHalf(v)], m[SecondHalf(v)])]

LEMMA PairOfField ==
  ASSUME NEW a \in Field, NEW b \in Field
  PROVE  <<a, b>> \in Seq(Field)
  OBVIOUS

LEMMA TreeUnfolds ==
  ASSUME NEW v \in Domains
  PROVE  /\ SubproductTree(v) \in Seq(Field)
         /\ Len(v) = 1 => SubproductTree(v) = <<Neg(v[1]), 1>>
         /\ Len(v) # 1 => SubproductTree(v) = PolyMul(SubproductTree(FirstHalf(v)),
                                                      SubproductTree(SecondHalf(v)))
<1> DEFINE R == Seq(Field)
           leaf == [w \in Domains |-> IF Len(w) = 1 THEN <<Neg(w[1]), 1>> ELSE <<>>]
           join == [w \in Domains |-> [a \in R |-> [b \in R |-> PolyMul(a, b)]]]
<1>1. leaf \in [Domains -> R]
  <2>1. ASSUME NEW w \in Domains, Len(w) = 1
        PROVE  <<Neg(w[1]), 1>> \in Seq(Field)
    <3>1. w[1] \in Field
      BY <2>1, DomainLength
    <3> QED BY <3>1, Closed
  <2> QED BY <2>1
<1>2. join \in [Domains -> [R -> [R -> R]]]
  BY PolyMulIs
<1>3. PICK g \in [Domains -> R] : \A w \in Domains : Recurs(g, leaf, join, w)
  <2> HIDE DEF leaf, join, R
  <2> QED BY <1>1, <1>2, TreeRecursion
<1>4. ASSUME NEW w \in Domains
      PROVE  g[w] = IF Len(w) = 1 THEN <<Neg(w[1]), 1>>
                    ELSE PolyMul(g[FirstHalf(w)], g[SecondHalf(w)])
  <2>1. CASE Len(w) = 1
    <3>1. g[w] = leaf[w]
      BY <1>3, <2>1 DEF Recurs
    <3> QED BY <2>1, <3>1
  <2>2. CASE Len(w) # 1
    <3>1. g[FirstHalf(w)] \in R /\ g[SecondHalf(w)] \in R
      BY <2>2, Halves
    <3>2. g[w] = join[w][g[FirstHalf(w)]][g[SecondHalf(w)]]
      BY <1>3, <2>2 DEF Recurs
    <3> QED BY <2>2, <3>1, <3>2
  <2> QED BY <2>1, <2>2
<1>5. IsTree(g)
  BY <1>4 DEF IsTree
<1> DEFINE t == CHOOSE m : IsTree(m)
<1>6. IsTree(t)
  BY <1>5
<1>7. \A w \in Domains : SubproductTree(w) = t[w]
  BY DEF SubproductTree, IsTree
<1> HIDE DEF t
<1>8. \A w \in Domains : t[w] = IF Len(w) = 1 THEN <<Neg(w[1]), 1>>
                                ELSE PolyMul(t[FirstHalf(w)], t[SecondHalf(w)])
  BY <1>6 DEF IsTree
<1>9. Domains \subseteq {w \in Domains : t[w] \in Seq(Field)}
  <2> DEFINE S == {w \in Domains : t[w] \in Seq(Field)}
  <2>1. ASSUME NEW w \in Domains, Len(w) = 1
        PROVE  w \in S
    <3>1. w[1] \in Field
      BY <2>1, DomainLength
    <3>2. <<Neg(w[1]), 1>> \in Seq(Field)
      BY <3>1, Closed, PairOfField
    <3> QED BY <1>8, <2>1, <3>2
  <2>2. ASSUME NEW w \in Domains, Len(w) # 1, FirstHalf(w) \in S, SecondHalf(w) \in S
        PROVE  w \in S
    BY <1>8, <2>2, PolyMulIs
  <2> HIDE DEF S
  <2>3. Domains \subseteq S
    BY <2>1, <2>2, TreeInduction
  <2> QED BY <2>3 DEF S
<1>10. Len(v) # 1 => FirstHalf(v) \in Domains /\ SecondHalf(v) \in Domains
  BY Halves
<1> QED BY <1>7, <1>8, <1>9, <1>10

\* The polynomial x - a.
LEMMA LinearFactor ==
  ASSUME NEW a \in Field
  PROVE  LET p == <<Neg(a), 1>>
         IN  /\ Monic(p) /\ Len(p) = 2
             /\ \A x \in Field : Evaluate(p, x) = Sub(x, a) /\ Slope(p, x) = 1
<1> DEFINE p == <<Neg(a), 1>>
           s == Shifted(p, 1)
           e == Shifted(s, 0)
<1>1. p \in Seq(Field) /\ Len(p) = 2 /\ p[2] = 1 /\ p[1] = Neg(a)
  BY Closed
<1>2. p \in Polynomials(1 + 1)
  BY <1>1, SeqIsPolynomial
<1> HIDE DEF p
<1>3. s \in Polynomials(0 + 1) /\ s[1] = 1 /\ s \in Polynomials(1)
  <2>1. s = [i \in 1 .. 1 |-> p[i + 1]]
    BY DEF Shifted
  <2>2. s[1] = p[1 + 1]
    BY <2>1
  <2>3. s \in Polynomials(1)
    BY <1>1, <2>1, Closed DEF Polynomials
  <2> QED BY <1>1, <2>2, <2>3
<1>4. e \in Polynomials(0)
  BY <1>3, EvaluateStep, Closed
<1> HIDE DEF s, e
<1>5. ASSUME NEW x \in Field
      PROVE  Evaluate(p, x) = Sub(x, a) /\ Slope(p, x) = 1
  <2>1. Evaluate(e, x) = 0 /\ Slope(e, x) = 0
    <3>1. e \in Seq(Field) /\ Len(e) = 0
      BY <1>4, PolynomialIsSeq
    <3>2. Derivative(e) \in Polynomials(0)
      BY <3>1, DerivativeIs, SeqIsPolynomial
    <3> QED BY <1>4, <3>2, EmptyPolynomial DEF Slope
  <2>2. /\ Evaluate(s, x) = Add(1, Mul(x, 0))
        /\ Slope(s, x) = Add(0, Mul(x, 0))
    <3>1. Evaluate(s, x) = Add(s[1], Mul(x, Evaluate(Shifted(s, 0), x)))
      BY <1>3, EvaluateStep
    <3>2. Slope(s, x) = Add(Evaluate(Shifted(s, 0), x), Mul(x, Slope(Shifted(s, 0), x)))
      BY <1>3, SlopeStep
    <3> QED BY <1>3, <2>1, <3>1, <3>2 DEF e
  <2>3. Evaluate(s, x) = 1 /\ Slope(s, x) = 0
    BY <2>2, MulLaws, AddLaws, Closed
  <2>4. /\ Evaluate(p, x) = Add(Neg(a), Mul(x, 1))
        /\ Slope(p, x) = Add(1, Mul(x, 0))
    <3>1. Evaluate(p, x) = Add(p[1], Mul(x, Evaluate(Shifted(p, 1), x)))
      BY <1>2, EvaluateStep
    <3>2. Slope(p, x) = Add(Evaluate(Shifted(p, 1), x), Mul(x, Slope(Shifted(p, 1), x)))
      BY <1>2, SlopeStep
    <3> QED BY <1>1, <2>3, <3>1, <3>2 DEF s
  <2>5. Add(Neg(a), x) = Sub(x, a)
    <3>1. a \in Int /\ x \in Int /\ -a \in Int /\ -a + x = x - a
      BY FieldIsInt
    <3> QED BY <3>1, Reduced
  <2> QED BY <2>4, <2>5, MulLaws, AddLaws, Closed
<1>6. Monic(p)
  BY <1>1 DEF Monic
<1> QED BY <1>1, <1>5, <1>6 DEF p

\* m is monic, vanishes at the points only, and its derivative at a point is
\* the product of the differences to the others.
LEMMA TreeIs ==
  ASSUME NEW v \in Domains
  PROVE  LET m == SubproductTree(v)
         IN  /\ Monic(m) /\ Len(m) = Len(v) + 1
             /\ \A x \in Field : Evaluate(m, x) = Vanishing(v, x)
             /\ \A k \in 1 .. Len(v) : Slope(m, v[k]) = Spread(v, k)
<1> DEFINE Good(w) == /\ Monic(SubproductTree(w)) /\ Len(SubproductTree(w)) = Len(w) + 1
                      /\ \A x \in Field : Evaluate(SubproductTree(w), x) = Vanishing(w, x)
                      /\ \A k \in 1 .. Len(w) : Slope(SubproductTree(w), w[k]) = Spread(w, k)
           S == {w \in Domains : Good(w)}
<1>1. ASSUME NEW w \in Domains, Len(w) = 1
      PROVE  w \in S
  <2>1. w[1] \in Field /\ 1 \in 1 .. Len(w)
    BY <1>1, DomainLength
  <2>2. SubproductTree(w) = <<Neg(w[1]), 1>>
    BY <1>1, TreeUnfolds
  <2>3. ASSUME NEW x \in Field
        PROVE  Vanishing(w, x) = Sub(x, w[1])
    <3> DEFINE f == [i \in 1 .. 1 |-> Sub(x, w[i])]
    <3>1. f[1] = Sub(x, w[1])
      OBVIOUS
    <3>0. Sub(x, w[1]) \in Field
      BY <2>1, Closed
    <3> HIDE DEF f
    <3>2. ProductTo(f, 0 + 1) = Mul(ProductTo(f, 0), f[0 + 1]) /\ ProductTo(f, 0) = 1
      BY ProductUnfolds
    <3>3. ProductTo(f, 1) = Mul(1, f[1])
      BY <3>2
    <3>4. Vanishing(w, x) = ProductTo(f, 1)
      BY <1>1 DEF Vanishing, f
    <3> QED BY <3>0, <3>1, <3>3, <3>4, MulLaws
  <2>4. Spread(w, 1) = 1
    <3> DEFINE f == [j \in 1 .. 1 |-> IF j = 1 THEN 1 ELSE Sub(w[1], w[j])]
    <3>1. f[1] = 1
      OBVIOUS
    <3> HIDE DEF f
    <3>2. ProductTo(f, 0 + 1) = Mul(ProductTo(f, 0), f[0 + 1]) /\ ProductTo(f, 0) = 1
      BY ProductUnfolds
    <3>3. ProductTo(f, 1) = Mul(1, 1)
      BY <3>1, <3>2
    <3>4. Spread(w, 1) = ProductTo(f, 1)
      BY <1>1 DEF Spread, f
    <3> QED BY <3>3, <3>4, MulLaws, Closed
  <2>5. /\ Monic(SubproductTree(w)) /\ Len(SubproductTree(w)) = 2
        /\ \A x \in Field : Evaluate(SubproductTree(w), x) = Sub(x, w[1])
                            /\ Slope(SubproductTree(w), x) = 1
    BY <2>1, <2>2, LinearFactor
  <2>6. \A k \in 1 .. Len(w) : k = 1
    BY <1>1
  <2>7. \A k \in 1 .. Len(w) : Slope(SubproductTree(w), w[k]) = Spread(w, k)
    <3> TAKE k \in 1 .. Len(w)
    <3>1. k = 1
      BY <2>6
    <3>2. Slope(SubproductTree(w), w[1]) = 1
      BY <2>1, <2>5
    <3> QED BY <2>4, <3>1, <3>2
  <2>8. Len(SubproductTree(w)) = Len(w) + 1
    BY <1>1, <2>5
  <2>9. \A x \in Field : Evaluate(SubproductTree(w), x) = Vanishing(w, x)
    BY <2>3, <2>5
  <2> QED BY <2>5, <2>7, <2>8, <2>9
<1>2. ASSUME NEW w \in Domains, Len(w) # 1, FirstHalf(w) \in S, SecondHalf(w) \in S
      PROVE  w \in S
  <2> DEFINE a == FirstHalf(w)  b == SecondHalf(w)  h == Half(w)
             ma == SubproductTree(a)  mb == SubproductTree(b)
             m == SubproductTree(w)
  <2>1. /\ Len(w) \in Nat /\ h \in 1 .. Len(w) - 1
        /\ a \in Domains /\ b \in Domains /\ Len(a) = h /\ Len(b) = Len(w) - h
        /\ \A i \in 1 .. h : a[i] = w[i]
        /\ \A i \in 1 .. Len(w) - h : b[i] = w[h + i]
    BY <1>2, Halves
  <2>2. m = PolyMul(ma, mb)
    BY <1>2, TreeUnfolds
  <2>3. Good(a) /\ Good(b)
    BY <1>2
  <2>4. /\ \A x \in Field : Vanishing(w, x) = Mul(Vanishing(a, x), Vanishing(b, x))
        /\ \A k \in 1 .. h : Spread(w, k) = Mul(Spread(a, k), Vanishing(b, w[k]))
        /\ \A k \in h + 1 .. Len(w) :
              Spread(w, k) = Mul(Vanishing(a, w[k]), Spread(b, k - h))
    BY <1>2, ProductsSplit
  <2> HIDE DEF a, b, h, m
  <2>5. Monic(m) /\ Len(m) = Len(w) + 1
    <3>1. Monic(m) /\ Len(m) = Len(ma) + Len(mb) - 1
      BY <2>2, <2>3, MonicProduct
    <3> QED BY <2>1, <2>3, <3>1
  <2>6. /\ ma \in Seq(Field) /\ mb \in Seq(Field)
    BY <2>3 DEF Monic
  <2> HIDE DEF ma, mb
  <2>7. ASSUME NEW x \in Field
        PROVE  /\ Evaluate(m, x) = Mul(Evaluate(ma, x), Evaluate(mb, x))
               /\ Slope(m, x) = Add(Mul(Slope(ma, x), Evaluate(mb, x)),
                                    Mul(Evaluate(ma, x), Slope(mb, x)))
               /\ Evaluate(ma, x) \in Field /\ Evaluate(mb, x) \in Field
               /\ Slope(ma, x) \in Field /\ Slope(mb, x) \in Field
    BY <2>2, <2>6, PolyMulIs, ValuesInField
  <2>8. /\ \A x \in Field : Evaluate(ma, x) = Vanishing(a, x)
        /\ \A x \in Field : Evaluate(mb, x) = Vanishing(b, x)
        /\ \A k \in 1 .. Len(a) : Slope(ma, a[k]) = Spread(a, k)
        /\ \A k \in 1 .. Len(b) : Slope(mb, b[k]) = Spread(b, k)
    BY <2>3 DEF ma, mb
  <2>9. \A x \in Field : Evaluate(m, x) = Vanishing(w, x)
    BY <2>4, <2>7, <2>8
  <2>10. ASSUME NEW k \in 1 .. Len(w)
         PROVE  Slope(m, w[k]) = Spread(w, k)
    <3>1. w[k] \in Field
      BY DomainLength
    <3>2. CASE k \in 1 .. h
      <4>1. a[k] = w[k] /\ k \in 1 .. Len(a)
        BY <2>1, <3>2
      <4>2. Evaluate(ma, w[k]) = 0
        BY <2>1, <2>8, <3>1, <4>1, VanishingAtPoint
      <4>3. Slope(ma, w[k]) = Spread(a, k) /\ Evaluate(mb, w[k]) = Vanishing(b, w[k])
        BY <2>8, <3>1, <4>1
      <4>4. Slope(m, w[k]) = Add(Mul(Spread(a, k), Vanishing(b, w[k])), Mul(0, Slope(mb, w[k])))
        BY <2>7, <3>1, <4>2, <4>3
      <4>5. Spread(w, k) = Mul(Spread(a, k), Vanishing(b, w[k])) /\ Spread(w, k) \in Field
        BY <2>4, <3>2, SpreadIs
      <4>6. Mul(0, Slope(mb, w[k])) = 0
        BY <2>7, <3>1, MulLaws
      <4> QED BY <4>4, <4>5, <4>6, AddLaws
    <3>3. CASE k \notin 1 .. h
      <4>1. b[k - h] = w[k] /\ k - h \in 1 .. Len(b) /\ k \in h + 1 .. Len(w)
        <5>1. k - h \in 1 .. Len(w) - h /\ h + (k - h) = k /\ k \in h + 1 .. Len(w)
          BY <2>1, <3>3
        <5> QED BY <2>1, <5>1
      <4>2. Evaluate(mb, w[k]) = 0
        BY <2>1, <2>8, <3>1, <4>1, VanishingAtPoint
      <4>3. Slope(mb, w[k]) = Spread(b, k - h) /\ Evaluate(ma, w[k]) = Vanishing(a, w[k])
        BY <2>8, <3>1, <4>1
      <4>4. Slope(m, w[k]) = Add(Mul(Slope(ma, w[k]), 0), Mul(Vanishing(a, w[k]), Spread(b, k - h)))
        BY <2>7, <3>1, <4>2, <4>3
      <4>5. Spread(w, k) = Mul(Vanishing(a, w[k]), Spread(b, k - h)) /\ Spread(w, k) \in Field
        BY <2>4, <4>1, SpreadIs
      <4>6. Mul(Slope(ma, w[k]), 0) = 0
        BY <2>7, <3>1, MulLaws
      <4> QED BY <4>4, <4>5, <4>6, AddLaws
    <3> QED BY <3>2, <3>3
  <2> QED BY <2>5, <2>9, <2>10 DEF m
<1> HIDE DEF S
<1>3. Domains \subseteq S
  BY <1>1, <1>2, TreeInduction
<1> QED BY <1>3 DEF S

-----------------------------------------------------------------------------
(***************************************************************************)
(* inverse_mod_xl.                                                         *)
(***************************************************************************)

\* g is computed at n from its value before.
Iterates(g, base, step, n) ==
    g[n] = IF n = 0 THEN base ELSE step[n][g[n - 1]]

\* A function on the numbers may be defined by its value before.
LEMMA NatRecursion ==
  ASSUME NEW R, NEW base \in R, NEW step \in [Nat -> [R -> R]]
  PROVE  \E g \in [Nat -> R] : \A n \in Nat : Iterates(g, base, step, n)
<1> DEFINE Upto(g, n) == \A k \in 0 .. n : Iterates(g, base, step, k)
           T == {n \in Nat : \E g \in [Nat -> R] : Upto(g, n)}
<1>1. 0 \in T
  <2> DEFINE g == [k \in Nat |-> base]
  <2>1. g \in [Nat -> R] /\ Upto(g, 0)
    BY DEF Iterates
  <2> QED BY <2>1
<1>2. ASSUME NEW n \in Nat, n \in T
      PROVE  n + 1 \in T
  <2>1. PICK g \in [Nat -> R] : Upto(g, n)
    BY <1>2
  <2> DEFINE h == [k \in Nat |-> IF k <= n THEN g[k] ELSE step[n + 1][g[n]]]
  <2>2. h \in [Nat -> R]
    <3>1. step[n + 1] \in [R -> R] /\ g[n] \in R
      OBVIOUS
    <3> QED BY <3>1
  <2>3. (\A k \in 0 .. n : h[k] = g[k]) /\ h[n + 1] = step[n + 1][g[n]]
    OBVIOUS
  <2>4. ASSUME NEW k \in 0 .. n + 1
        PROVE  Iterates(h, base, step, k)
    <3>1. CASE k \in 0 .. n
      <4>1. Iterates(g, base, step, k)
        BY <2>1, <3>1
      <4>2. k # 0 => k - 1 \in 0 .. n
        BY <3>1
      <4> QED BY <2>3, <3>1, <4>1, <4>2 DEF Iterates
    <3>2. CASE k = n + 1
      <4>1. k # 0 /\ k - 1 = n /\ n \in 0 .. n
        BY <3>2
      <4>2. h[k] = step[k][h[k - 1]]
        BY <2>3, <3>2, <4>1
      <4> QED BY <4>1, <4>2 DEF Iterates
    <3> QED BY <3>1, <3>2
  <2> HIDE DEF h
  <2> QED BY <2>2, <2>4
<1> HIDE DEF T
<1>3. Nat \subseteq T
  BY <1>1, <1>2, Induction
<1> USE DEF T
<1> DEFINE Stage(n) == CHOOSE g \in [Nat -> R] : Upto(g, n)
<1>4. \A n \in Nat : Stage(n) \in [Nat -> R] /\ Upto(Stage(n), n)
  BY <1>3
<1> HIDE DEF T, Stage
<1> DEFINE A == {k \in Nat : \A m, n \in Nat :
                    k <= m /\ k <= n => Stage(m)[k] = Stage(n)[k]}
<1>5. Nat \subseteq A
  <2>1. 0 \in A
    BY <1>4 DEF Iterates
  <2>2. ASSUME NEW k \in Nat, k \in A
        PROVE  k + 1 \in A
    <3> SUFFICES ASSUME NEW m \in Nat, NEW n \in Nat, k + 1 <= m, k + 1 <= n
                 PROVE  Stage(m)[k + 1] = Stage(n)[k + 1]
      OBVIOUS
    <3>1. Stage(m)[k] = Stage(n)[k]
      BY <2>2
    <3>2. k + 1 \in 0 .. m /\ k + 1 \in 0 .. n /\ k + 1 # 0 /\ (k + 1) - 1 = k
      OBVIOUS
    <3>3. Iterates(Stage(m), base, step, k + 1) /\ Iterates(Stage(n), base, step, k + 1)
      BY <1>4, <3>2
    <3> QED BY <3>1, <3>2, <3>3 DEF Iterates
  <2> HIDE DEF A
  <2> QED BY <2>1, <2>2, Induction
<1> DEFINE g == [n \in Nat |-> Stage(n)[n]]
<1>6. g \in [Nat -> R]
  BY <1>4
<1>7. ASSUME NEW n \in Nat
      PROVE  Iterates(g, base, step, n)
  <2>1. Iterates(Stage(n), base, step, n)
    BY <1>4
  <2>2. CASE n = 0
    BY <2>1, <2>2 DEF Iterates
  <2>3. CASE n # 0
    <3>1. n - 1 \in Nat /\ n - 1 <= n /\ n - 1 <= n - 1
      BY <2>3
    <3>2. Stage(n)[n - 1] = Stage(n - 1)[n - 1]
      BY <1>5, <3>1
    <3>3. g[n - 1] = Stage(n)[n - 1] /\ g[n] = Stage(n)[n]
      BY <3>1, <3>2
    <3> HIDE DEF g
    <3> QED BY <2>1, <2>3, <3>3 DEF Iterates
  <2> QED BY <2>2, <2>3
<1> HIDE DEF g
<1> QED BY <1>6, <1>7

LEMMA PanicIsNoPolynomial == Panic \notin Seq(Field)
<1> SUFFICES ASSUME Panic \in Seq(Field) PROVE FALSE
  OBVIOUS
<1>1. Len(Panic) = 1 /\ Panic[1] = -1
  BY DEF Panic
<1>2. Panic[1] \in Field
  BY <1>1, SeqIsPolynomial
<1> QED BY <1>1, <1>2, FieldIsInt DEF Field

LEMMA FirstOfField ==
  ASSUME NEW p \in Seq(Field), NEW n \in Nat
  PROVE  SubSeq(p, 1, IF Len(p) <= n THEN Len(p) ELSE n) \in Seq(Field)
<1>1. Len(p) \in Nat
  BY SeqIsPolynomial
<1> QED BY <1>1, SubSeqOfField

LEMMA NewtonStepType ==
  ASSUME NEW func \in Seq(Field), NEW a \in Dividends, NEW acc \in Nat
  PROVE  /\ NewtonStep(func, a, acc) \in Dividends
         /\ a # Panic /\ DegreeDefined(a) => NewtonStep(func, a, acc) \in Seq(Field)
<1> DEFINE next == PolySub(PolyAdd(a, a), PolyMul(func, PolyMul(a, a)))
           first == SubSeq(next, 1, IF Len(next) <= acc THEN Len(next) ELSE acc)
<1>1. CASE a = Panic \/ ~DegreeDefined(a)
  BY <1>1 DEF NewtonStep, Dividends
<1>2. CASE a # Panic /\ DegreeDefined(a)
  <2>1. a \in Seq(Field)
    BY <1>2 DEF Dividends
  <2>2. PolyAdd(a, a) \in Seq(Field) /\ PolyMul(a, a) \in Seq(Field)
    BY <2>1, PolyAddIs, PolyMulIs
  <2>3. PolyMul(func, PolyMul(a, a)) \in Seq(Field)
    BY <2>2, PolyMulIs
  <2>4. next \in Seq(Field)
    BY <2>2, <2>3, PolySubIs
  <2>5. NewtonStep(func, a, acc) = first
    BY <1>2 DEF NewtonStep
  <2> HIDE DEF next
  <2>6. first \in Seq(Field)
    BY <2>4, FirstOfField
  <2> QED BY <2>5, <2>6 DEF Dividends
<1> QED BY <1>1, <1>2

LEMMA SingleOfField ==
  ASSUME NEW a \in Field
  PROVE  <<a>> \in Seq(Field)
  OBVIOUS

IsNewton(func, inv) ==
    inv = [k \in Nat |-> IF k = 0 THEN <<Inv(func[1])>>
                         ELSE NewtonStep(func, inv[k - 1], 2^k)]

LEMMA InverseUnfolds ==
  ASSUME NEW func \in Seq(Field), Len(func) # 0, func[1] # 0
  PROVE  \E g \in [Nat -> Dividends] :
            /\ \A length : InverseModXl(func, length) = g[Log2(length)]
            /\ g[0] = <<Inv(func[1])>>
            /\ \A k \in Nat : g[k + 1] = NewtonStep(func, g[k], 2^(k + 1))
<1> DEFINE R == Dividends
           base == <<Inv(func[1])>>
           step == [k \in Nat |-> [a \in R |-> NewtonStep(func, a, 2^k)]]
<1>1. base \in R
  <2>1. func[1] \in Field \ {0}
    BY SeqIsPolynomial
  <2>2. Inv(func[1]) \in Field
    BY <2>1, InverseLaws
  <2>3. base \in Seq(Field)
    BY <2>2, SingleOfField
  <2> QED BY <2>3 DEF Dividends
<1>2. step \in [Nat -> [R -> R]]
  <2> SUFFICES ASSUME NEW k \in Nat, NEW a \in R
               PROVE  NewtonStep(func, a, 2^k) \in R
    OBVIOUS
  <2>1. 2^k \in Nat
    BY PowerOfTwo
  <2> QED BY <2>1, NewtonStepType
<1>3. PICK g \in [Nat -> R] : \A n \in Nat : Iterates(g, base, step, n)
  <2> HIDE DEF base, step, R
  <2> QED BY <1>1, <1>2, NatRecursion
<1>4. ASSUME NEW n \in Nat
      PROVE  g[n] = IF n = 0 THEN <<Inv(func[1])>>
                    ELSE NewtonStep(func, g[n - 1], 2^n)
  <2>1. CASE n = 0
    BY <1>3, <2>1 DEF Iterates
  <2>2. CASE n # 0
    <3>1. n - 1 \in Nat /\ g[n - 1] \in R
      BY <2>2
    <3>2. g[n] = step[n][g[n - 1]]
      BY <1>3, <2>2 DEF Iterates
    <3> QED BY <2>2, <3>1, <3>2
  <2> QED BY <2>1, <2>2
<1>5. IsNewton(func, g)
  BY <1>4 DEF IsNewton
<1> DEFINE t == CHOOSE inv : IsNewton(func, inv)
<1>6. IsNewton(func, t)
  BY <1>5
<1>7. \A length : InverseModXl(func, length) = t[Log2(length)]
  BY DEF InverseModXl, IsNewton
<1> HIDE DEF t
<1>8. \A n \in Nat : t[n] = IF n = 0 THEN <<Inv(func[1])>>
                            ELSE NewtonStep(func, t[n - 1], 2^n)
  BY <1>6 DEF IsNewton
<1>9. t[0] = base /\ \A n \in Nat : t[n + 1] = NewtonStep(func, t[n], 2^(n + 1))
  BY <1>8
<1>10. t = [n \in Nat |-> t[n]]
  BY <1>6 DEF IsNewton
<1>11. Nat \subseteq {n \in Nat : t[n] \in R}
  <2> DEFINE S == {n \in Nat : t[n] \in R}
  <2>1. 0 \in S
    BY <1>1, <1>9
  <2>2. ASSUME NEW n \in Nat, n \in S
        PROVE  n + 1 \in S
    <3>1. 2^(n + 1) \in Nat
      BY PowerOfTwo
    <3>2. t[n] \in Dividends
      BY <2>2
    <3>3. NewtonStep(func, t[n], 2^(n + 1)) \in Dividends
      BY <3>1, <3>2, NewtonStepType
    <3>4. t[n + 1] = NewtonStep(func, t[n], 2^(n + 1))
      BY <1>9
    <3>5. t[n + 1] \in R
      BY <3>3, <3>4
    <3>6. n + 1 \in Nat
      OBVIOUS
    <3> HIDE DEF R
    <3> QED BY <3>5, <3>6
  <2> HIDE DEF S
  <2>3. Nat \subseteq S
    BY <2>1, <2>2, Induction
  <2> QED BY <2>3 DEF S
<1>12. t \in [Nat -> R]
  BY <1>10, <1>11
<1> QED BY <1>7, <1>9, <1>12

LEMMA LogIs ==
  ASSUME NEW n \in Nat \ {0}
  PROVE  /\ Log2(n) \in 0 .. n /\ 2^Log2(n) >= n
         /\ \A j \in 0 .. Log2(n) - 1 : 2^j < n
<1> DEFINE Large == {k \in Nat : 2^k >= n}
<1>1. n \in Large
  BY PowerOfTwo
<1>2. PICK k \in Large : \A j \in Large : k <= j
  <2>1. Large \in SUBSET Nat /\ Large # {}
    BY <1>1
  <2> HIDE DEF Large
  <2> QED BY <2>1, Least
<1>3. k \in 0 .. n
  BY <1>1, <1>2
<1>4. \A j \in 0 .. k - 1 : 2^j < n
  <2> TAKE j \in 0 .. k - 1
  <2>1. j \in Nat /\ 2^j \in Nat
    BY <1>3, PowerOfTwo
  <2>2. j \notin Large
    BY <1>2, <1>3, <2>1
  <2> QED BY <2>1, <2>2
<1> QED BY <1>2, <1>3, <1>4 DEF Log2

LEMMA InverseType ==
  ASSUME NEW func \in Seq(Field), Len(func) # 0, func[1] # 0,
         NEW length \in Nat \ {0}
  PROVE  InverseModXl(func, length) \in Dividends
<1>1. Log2(length) \in Nat
  <2>1. Log2(length) \in 0 .. length
    BY LogIs
  <2> QED BY <2>1
<1>2. PICK g \in [Nat -> Dividends] :
             \A l : InverseModXl(func, l) = g[Log2(l)]
  BY InverseUnfolds
<1> QED BY <1>1, <1>2

-----------------------------------------------------------------------------
(***************************************************************************)
(* fast_divide_monic.                                                      *)
(***************************************************************************)

LEMMA ReverseIs ==
  ASSUME NEW p \in Seq(Field)
  PROVE  /\ Reverse(p) \in Seq(Field) /\ Len(Reverse(p)) = Len(p)
         /\ \A i \in 1 .. Len(p) : Reverse(p)[i] = p[Len(p) + 1 - i]
<1> DEFINE n == Len(p)
<1>1. n \in Nat /\ \A i \in 1 .. n : p[i] \in Field
  BY SeqIsPolynomial
<1>2. Reverse(p) = [i \in 1 .. n |-> p[(n - i) + 1]]
  BY DEF Reverse
<1> HIDE DEF n
<1>3. \A i \in 1 .. n : (n - i) + 1 \in 1 .. n /\ (n - i) + 1 = n + 1 - i
  BY <1>1
<1>4. Reverse(p) \in [1 .. n -> Field]
  BY <1>1, <1>2, <1>3
<1>5. Reverse(p) \in Polynomials(n)
  BY <1>4 DEF Polynomials
<1>6. Reverse(p) \in Seq(Field) /\ Len(Reverse(p)) = n
  BY <1>1, <1>5, PolynomialIsSeq
<1>7. \A i \in 1 .. n : Reverse(p)[i] = p[n + 1 - i]
  BY <1>2, <1>3
<1> QED BY <1>6, <1>7 DEF n

LEMMA ResizeType ==
  ASSUME NEW p \in Seq(Field), NEW n \in Nat
  PROVE  /\ Resize(p, n) \in Seq(Field) /\ Len(Resize(p, n)) = n
         /\ \A i \in 1 .. n : Resize(p, n)[i] = Coefficient(p, i)
<1>1. \A i \in 1 .. n : Coefficient(p, i) \in Field
  BY CoefficientIs
<1>2. Resize(p, n) \in Polynomials(n)
  BY <1>1 DEF Resize, Polynomials
<1>3. \A i \in 1 .. n : Resize(p, n)[i] = Coefficient(p, i)
  BY DEF Resize
<1> QED BY <1>2, <1>3, PolynomialIsSeq

LEMMA RevIs ==
  ASSUME NEW p \in Seq(Field), NEW m \in Nat
  PROVE  /\ Rev(p, m) \in Seq(Field) /\ Len(Rev(p, m)) = m + 1
         /\ \A i \in 1 .. m + 1 : Rev(p, m)[i] = Coefficient(p, m + 2 - i)
<1> DEFINE r == Resize(p, m + 1)
<1>1. /\ r \in Seq(Field) /\ Len(r) = m + 1
      /\ \A i \in 1 .. m + 1 : r[i] = Coefficient(p, i)
  BY ResizeType
<1>2. Rev(p, m) = Reverse(r)
  BY DEF Rev
<1> HIDE DEF r
<1>3. /\ Reverse(r) \in Seq(Field) /\ Len(Reverse(r)) = m + 1
      /\ \A i \in 1 .. m + 1 : Reverse(r)[i] = r[(m + 1) + 1 - i]
  BY <1>1, ReverseIs
<1>4. \A i \in 1 .. m + 1 : (m + 1) + 1 - i \in 1 .. m + 1 /\ (m + 1) + 1 - i = m + 2 - i
  OBVIOUS
<1> QED BY <1>1, <1>2, <1>3, <1>4

\* The quotient that fast_divide_monic computes from the inverse.
QuotientBy(func, inverse, diff) ==
    Rev(Resize(PolyMul(Reverse(func), inverse), diff + 1), diff)

\* Division returns func at once, or panics, or subtracts from func a multiple
\* of the divisor.
LEMMA DivisionShape ==
  ASSUME NEW func \in Seq(Field), NEW divisor, Monic(divisor)
  PROVE  LET r == FastDivideMonic(func, divisor).remainder
             diff == Len(func) - Len(divisor)
             inverse == InverseModXl(Reverse(divisor), diff + 1)
             q == QuotientBy(func, inverse, diff)
         IN  /\ Len(func) < Len(divisor) => r = func
             /\ Len(func) >= Len(divisor) =>
                   /\ inverse \in Dividends
                   /\ inverse = Panic => r = Panic
                   /\ inverse # Panic =>
                        /\ q \in Seq(Field) /\ Len(q) = diff + 1
                        /\ r = Subtract(func, PolyMul(divisor, q))
<1> DEFINE r == FastDivideMonic(func, divisor).remainder
           diff == Len(func) - Len(divisor)
           rd == Reverse(divisor)
           inverse == InverseModXl(rd, diff + 1)
           q == QuotientBy(func, inverse, diff)
<1>1. Len(func) < Len(divisor) => r = func
  BY DEF FastDivideMonic
<1>2. ASSUME Len(func) >= Len(divisor)
      PROVE  /\ inverse \in Dividends
             /\ inverse = Panic => r = Panic
             /\ inverse # Panic => /\ q \in Seq(Field) /\ Len(q) = diff + 1
                                   /\ r = Subtract(func, PolyMul(divisor, q))
  <2>1. /\ divisor \in Seq(Field) /\ Len(divisor) \in Nat \ {0}
        /\ divisor[Len(divisor)] = 1 /\ Len(func) \in Nat
    BY SeqIsPolynomial DEF Monic
  <2>2. diff \in Nat /\ diff + 1 \in Nat \ {0}
    BY <1>2, <2>1
  <2>3. rd \in Seq(Field) /\ Len(rd) # 0 /\ rd[1] = 1
    <3>1. /\ rd \in Seq(Field) /\ Len(rd) = Len(divisor)
          /\ \A i \in 1 .. Len(divisor) : rd[i] = divisor[Len(divisor) + 1 - i]
      BY <2>1, ReverseIs
    <3>2. 1 \in 1 .. Len(divisor) /\ Len(divisor) + 1 - 1 = Len(divisor)
      BY <2>1
    <3> HIDE DEF rd
    <3> QED BY <2>1, <3>1, <3>2
  <2>4. r = IF inverse = Panic THEN Panic ELSE Subtract(func, PolyMul(divisor, q))
    BY <1>2, <2>1 DEF FastDivideMonic, QuotientBy
  <2> HIDE DEF rd, diff, r
  <2>5. inverse \in Dividends
    BY <2>2, <2>3, InverseType
  <2>6. ASSUME inverse # Panic
        PROVE  q \in Seq(Field) /\ Len(q) = diff + 1
    <3>1. inverse \in Seq(Field)
      BY <2>5, <2>6 DEF Dividends
    <3> HIDE DEF inverse
    <3>2. Reverse(func) \in Seq(Field)
      BY ReverseIs
    <3>3. PolyMul(Reverse(func), inverse) \in Seq(Field)
      BY <3>1, <3>2, PolyMulIs
    <3>4. Resize(PolyMul(Reverse(func), inverse), diff + 1) \in Seq(Field)
      BY <2>2, <3>3, ResizeType
    <3> QED BY <2>2, <3>4, RevIs DEF QuotientBy
  <2> HIDE DEF inverse, q
  <2> QED BY <2>4, <2>5, <2>6
<1> QED BY <1>1, <1>2

LEMMA TrimmedDefined ==
  ASSUME NEW p \in Seq(Field), Trimmed(p)
  PROVE  DegreeDefined(p)
<1>1. CASE p = <<>>
  <2>1. DOMAIN p = {}
    BY <1>1
  <2> QED BY <2>1 DEF DegreeDefined, IsZero
<1>2. CASE p # <<>>
  BY <1>2 DEF DegreeDefined, Trimmed
<1> QED BY <1>1, <1>2

\* A remainder has the values of func wherever the divisor vanishes.
LEMMA DivisionIs ==
  ASSUME NEW func \in Seq(Field), NEW divisor, Monic(divisor)
  PROVE  LET r == FastDivideMonic(func, divisor).remainder
         IN  /\ r \in Dividends
             /\ r # Panic =>
                  /\ r \in Seq(Field)
                  /\ \A x \in Field :
                        Evaluate(divisor, x) = 0 => Evaluate(r, x) = Evaluate(func, x)
                  /\ Trimmed(func) => Trimmed(r)
                  /\ DegreeDefined(func) /\ Len(func) >= Len(divisor) => Trimmed(r)
<1> DEFINE r == FastDivideMonic(func, divisor).remainder
           diff == Len(func) - Len(divisor)
           inverse == InverseModXl(Reverse(divisor), diff + 1)
           q == QuotientBy(func, inverse, diff)
           Good == /\ r \in Dividends
                   /\ r # Panic =>
                        /\ r \in Seq(Field)
                        /\ \A x \in Field :
                              Evaluate(divisor, x) = 0 => Evaluate(r, x) = Evaluate(func, x)
                        /\ Trimmed(func) => Trimmed(r)
                        /\ DegreeDefined(func) /\ Len(func) >= Len(divisor) => Trimmed(r)
<1>1. Len(func) \in Nat /\ Len(divisor) \in Nat /\ divisor \in Seq(Field)
  BY SeqIsPolynomial DEF Monic
<1>2. CASE Len(func) < Len(divisor)
  <2>1. r = func
    BY <1>2, DivisionShape
  <2> HIDE DEF r
  <2>2. ~(Len(func) >= Len(divisor))
    BY <1>1, <1>2
  <2>3. Good
    BY <2>1, <2>2 DEF Dividends
  <2> QED BY <2>3 DEF r
<1>3. CASE Len(func) >= Len(divisor)
  <2>1. /\ inverse \in Dividends
        /\ inverse = Panic => r = Panic
        /\ inverse # Panic => /\ q \in Seq(Field)
                              /\ r = Subtract(func, PolyMul(divisor, q))
    BY <1>3, DivisionShape
  <2> HIDE DEF r, inverse, q
  <2>2. CASE inverse = Panic
    <3>1. Good
      BY <2>1, <2>2 DEF Dividends
    <3> QED BY <3>1 DEF r
  <2>3. CASE inverse # Panic /\ ~DegreeDefined(func)
    <3>1. r = func \/ r = Panic
      BY <2>1, <2>3 DEF Subtract
    <3>2. ~Trimmed(func)
      BY <2>3, TrimmedDefined
    <3>3. Good
      BY <2>3, <3>1, <3>2 DEF Dividends
    <3> QED BY <3>3 DEF r
  <2>4. CASE inverse # Panic /\ DegreeDefined(func)
    <3> DEFINE c == PolyMul(divisor, q)
    <3>1. /\ c \in Seq(Field)
          /\ \A x \in Field : Evaluate(c, x) = Mul(Evaluate(divisor, x), Evaluate(q, x))
      BY <1>1, <2>1, <2>4, PolyMulIs
    <3>2. r = PolySub(func, c)
      BY <2>1, <2>4 DEF Subtract
    <3> HIDE DEF c
    <3>3. /\ r \in Seq(Field) /\ Trimmed(r)
          /\ \A x \in Field : Evaluate(r, x) = Sub(Evaluate(func, x), Evaluate(c, x))
      BY <3>1, <3>2, PolySubIs
    <3>4. ASSUME NEW x \in Field, Evaluate(divisor, x) = 0
          PROVE  Evaluate(r, x) = Evaluate(func, x)
      <4>1. Evaluate(q, x) \in Field /\ Evaluate(func, x) \in Field
        BY <2>1, <2>4, ValuesInField
      <4>2. Mul(0, Evaluate(q, x)) = 0
        BY <4>1, MulLaws, Closed, AddCommutes
      <4>3. Evaluate(c, x) = 0
        BY <3>1, <3>4, <4>2
      <4>4. Sub(Evaluate(func, x), 0) = Evaluate(func, x)
        BY <4>1, SubLaws
      <4> QED BY <3>3, <4>3, <4>4
    <3>5. Good
      BY <3>3, <3>4 DEF Dividends
    <3> QED BY <3>5 DEF r
  <2> QED BY <2>2, <2>3, <2>4
<1> QED BY <1>1, <1>2, <1>3

-----------------------------------------------------------------------------
(***************************************************************************)
(* SubproductTree::evaluate.                                               *)
(***************************************************************************)

RemainderBy(g, v) == FastDivideMonic(g, SubproductTree(v)).remainder

\* A node, from what the evaluations at its children give.
NodeValue(v, g, first, second) ==
    IF g = Panic \/ ~DegreeDefined(g) \/ Degree(g) >= Len(v) THEN Panic
    ELSE IF Len(v) = 1 THEN IF g = <<>> THEN Panic ELSE <<g[1]>>
    ELSE IF first = Panic \/ second = Panic THEN Panic ELSE first \o second

LEMMA ConcatOfField ==
  ASSUME NEW p \in Seq(Field), NEW q \in Seq(Field)
  PROVE  /\ p \o q \in Seq(Field) /\ Len(p \o q) = Len(p) + Len(q)
         /\ \A i \in 1 .. Len(p) : (p \o q)[i] = p[i]
         /\ \A i \in Len(p) + 1 .. Len(p) + Len(q) : (p \o q)[i] = q[i - Len(p)]
  OBVIOUS

LEMMA RemainderIs ==
  ASSUME NEW v \in Domains, NEW g \in Seq(Field)
  PROVE  LET r == RemainderBy(g, v)
         IN  /\ r \in Dividends
             /\ r # Panic =>
                  /\ r \in Seq(Field)
                  /\ \A k \in 1 .. Len(v) : Evaluate(r, v[k]) = Evaluate(g, v[k])
                  /\ Trimmed(g) => Trimmed(r)
                  /\ DegreeDefined(g) /\ Len(g) > Len(v) => Trimmed(r)
<1> DEFINE m == SubproductTree(v)
           r == FastDivideMonic(g, m).remainder
<1>1. /\ Monic(m) /\ Len(m) = Len(v) + 1
      /\ \A x \in Field : Evaluate(m, x) = Vanishing(v, x)
  BY TreeIs
<1>2. Len(v) \in Nat /\ Len(g) \in Nat /\ \A k \in 1 .. Len(v) : v[k] \in Field
  BY DomainLength, SeqIsPolynomial
<1>3. r = RemainderBy(g, v)
  BY DEF RemainderBy
<1> HIDE DEF m
<1>4. /\ r \in Dividends
      /\ r # Panic =>
            /\ r \in Seq(Field)
            /\ \A x \in Field :
                  Evaluate(m, x) = 0 => Evaluate(r, x) = Evaluate(g, x)
            /\ Trimmed(g) => Trimmed(r)
            /\ DegreeDefined(g) /\ Len(g) >= Len(m) => Trimmed(r)
  BY <1>1, DivisionIs
<1> HIDE DEF r
<1>5. \A k \in 1 .. Len(v) : Evaluate(m, v[k]) = 0
  BY <1>1, <1>2, VanishingAtPoint
<1>6. Len(g) > Len(v) => Len(g) >= Len(m)
  BY <1>1, <1>2
<1> QED BY <1>2, <1>3, <1>4, <1>5, <1>6

LEMMA NodeType ==
  ASSUME NEW v \in Domains, NEW g \in Dividends, NEW first, NEW second,
         g \in Seq(Field) /\ Len(v) # 1 => first \in Dividends /\ second \in Dividends
  PROVE  NodeValue(v, g, first, second) \in Dividends
<1>1. CASE g = Panic \/ ~DegreeDefined(g) \/ Degree(g) >= Len(v)
  BY <1>1 DEF NodeValue, Dividends
<1>2. CASE ~(g = Panic \/ ~DegreeDefined(g) \/ Degree(g) >= Len(v))
  <2>1. g \in Seq(Field)
    BY <1>2 DEF Dividends
  <2>2. CASE Len(v) = 1
    <3>1. CASE g = <<>>
      BY <1>2, <2>2, <3>1 DEF NodeValue, Dividends
    <3>2. CASE g # <<>>
      <4>1. Len(g) \in Nat /\ Len(g) # 0
        BY <2>1, <3>2, EmptySeq, SeqIsPolynomial
      <4>2. g[1] \in Field
        BY <2>1, <4>1, SeqIsPolynomial
      <4>3. <<g[1]>> \in Seq(Field)
        BY <4>2, SingleOfField
      <4>4. NodeValue(v, g, first, second) = <<g[1]>>
        BY <1>2, <2>2, <3>2 DEF NodeValue
      <4> QED BY <4>3, <4>4 DEF Dividends
    <3> QED BY <3>1, <3>2
  <2>3. CASE Len(v) # 1
    <3>1. CASE first = Panic \/ second = Panic
      BY <1>2, <2>3, <3>1 DEF NodeValue, Dividends
    <3>2. CASE ~(first = Panic \/ second = Panic)
      <4>1. first \in Seq(Field) /\ second \in Seq(Field)
        BY <2>1, <2>3, <3>2 DEF Dividends
      <4>2. first \o second \in Seq(Field)
        BY <4>1, ConcatOfField
      <4>3. NodeValue(v, g, first, second) = first \o second
        BY <1>2, <2>3, <3>2 DEF NodeValue
      <4> QED BY <4>2, <4>3 DEF Dividends
    <3> QED BY <3>1, <3>2
  <2> QED BY <2>2, <2>3
<1> QED BY <1>1, <1>2

IsEvaluation(t) ==
    t = [v \in Domains |-> [g \in Dividends |->
            IF g = Panic \/ ~DegreeDefined(g) \/ Degree(g) >= Len(v) THEN Panic
            ELSE IF Len(v) = 1 THEN IF g = <<>> THEN Panic ELSE <<g[1]>>
            ELSE LET m_0 == SubproductTree(FirstHalf(v))
                     m_1 == SubproductTree(SecondHalf(v))
                 IN  Joined(t[FirstHalf(v)][FastDivideMonic(g, m_0).remainder],
                            t[SecondHalf(v)][FastDivideMonic(g, m_1).remainder])]]

NodeOf(t, v, g) ==
    NodeValue(v, g, t[FirstHalf(v)][RemainderBy(g, FirstHalf(v))],
                    t[SecondHalf(v)][RemainderBy(g, SecondHalf(v))])

LEMMA EvaluationNodes ==
  ASSUME NEW t
  PROVE  IsEvaluation(t) <=>
            t = [v \in Domains |-> [g \in Dividends |-> NodeOf(t, v, g)]]
BY Zenon DEF IsEvaluation, NodeOf, NodeValue, RemainderBy, Joined

LEMMA EvaluationUnfolds ==
  ASSUME NEW v \in Domains, NEW g \in Dividends
  PROVE  /\ TreeEvaluate(g, v) \in Dividends
         /\ TreeEvaluate(g, v) =
               NodeValue(v, g, TreeEvaluate(RemainderBy(g, FirstHalf(v)), FirstHalf(v)),
                               TreeEvaluate(RemainderBy(g, SecondHalf(v)), SecondHalf(v)))
<1> DEFINE R == [Dividends -> Dividends]
           leaf == [w \in Domains |-> [h \in Dividends |->
                      IF Len(w) = 1 THEN NodeValue(w, h, Panic, Panic) ELSE Panic]]
           join == [w \in Domains |-> [a \in R |-> [b \in R |-> [h \in Dividends |->
                      IF Len(w) # 1
                      THEN NodeValue(w, h, a[RemainderBy(h, FirstHalf(w))],
                                           b[RemainderBy(h, SecondHalf(w))])
                      ELSE Panic]]]]
<1>1. Panic \in Dividends
  BY DEF Dividends
<1>2. leaf \in [Domains -> R]
  <2> SUFFICES ASSUME NEW w \in Domains, NEW h \in Dividends, Len(w) = 1
               PROVE  NodeValue(w, h, Panic, Panic) \in Dividends
    BY <1>1
  <2> QED BY NodeType
<1>3. join \in [Domains -> [R -> [R -> R]]]
  <2> SUFFICES ASSUME NEW w \in Domains, NEW a \in R, NEW b \in R,
                      NEW h \in Dividends, Len(w) # 1
               PROVE  NodeValue(w, h, a[RemainderBy(h, FirstHalf(w))],
                                b[RemainderBy(h, SecondHalf(w))]) \in Dividends
    BY <1>1
  <2>1. h \in Seq(Field) => /\ RemainderBy(h, FirstHalf(w)) \in Dividends
                            /\ RemainderBy(h, SecondHalf(w)) \in Dividends
    BY Halves, RemainderIs
  <2>2. h \in Seq(Field) => /\ a[RemainderBy(h, FirstHalf(w))] \in Dividends
                            /\ b[RemainderBy(h, SecondHalf(w))] \in Dividends
    BY <2>1
  <2> QED BY <2>2, NodeType
<1>4. PICK f \in [Domains -> R] : \A w \in Domains : Recurs(f, leaf, join, w)
  <2> HIDE DEF leaf, join, R
  <2> QED BY <1>2, <1>3, TreeRecursion
<1>5. ASSUME NEW w \in Domains, NEW h \in Dividends
      PROVE  f[w][h] = NodeOf(f, w, h)
  <2>1. CASE Len(w) = 1
    <3>1. f[w] = leaf[w]
      BY <1>4, <2>1 DEF Recurs
    <3>2. f[w][h] = NodeValue(w, h, Panic, Panic)
      BY <2>1, <3>1
    <3> QED BY <2>1, <3>2 DEF NodeOf, NodeValue
  <2>2. CASE Len(w) # 1
    <3>1. f[FirstHalf(w)] \in R /\ f[SecondHalf(w)] \in R
      BY <2>2, Halves
    <3>2. f[w] = join[w][f[FirstHalf(w)]][f[SecondHalf(w)]]
      BY <1>4, <2>2 DEF Recurs
    <3>3. f[w][h] = NodeValue(w, h, f[FirstHalf(w)][RemainderBy(h, FirstHalf(w))],
                                    f[SecondHalf(w)][RemainderBy(h, SecondHalf(w))])
      BY <2>2, <3>1, <3>2
    <3> QED BY <3>3 DEF NodeOf
  <2> QED BY <2>1, <2>2
<1>6. \A w \in Domains : f[w] = [h \in Dividends |-> NodeOf(f, w, h)]
  BY <1>5
<1>7. f = [w \in Domains |-> [h \in Dividends |-> NodeOf(f, w, h)]]
  BY <1>6
<1>8. IsEvaluation(f)
  BY <1>7, EvaluationNodes
<1> DEFINE t == CHOOSE e : IsEvaluation(e)
<1>9. IsEvaluation(t)
  BY <1>8
<1>10. \A h, w : TreeEvaluate(h, w) = t[w][h]
  BY DEF TreeEvaluate, IsEvaluation
<1> HIDE DEF t
<1>11. t = [w \in Domains |-> [h \in Dividends |-> NodeOf(t, w, h)]]
  BY <1>9, EvaluationNodes
<1>12. \A w \in Domains, h \in Dividends : t[w][h] = NodeOf(t, w, h)
  BY <1>11
<1>13. Domains \subseteq {w \in Domains : \A h \in Dividends : t[w][h] \in Dividends}
  <2> DEFINE S == {w \in Domains : \A h \in Dividends : t[w][h] \in Dividends}
  <2>1. ASSUME NEW w \in Domains, Len(w) = 1
        PROVE  w \in S
    BY <1>12, <2>1, NodeType DEF NodeOf
  <2>2. ASSUME NEW w \in Domains, Len(w) # 1, FirstHalf(w) \in S, SecondHalf(w) \in S
        PROVE  w \in S
    <3> SUFFICES ASSUME NEW h \in Dividends PROVE t[w][h] \in Dividends
      OBVIOUS
    <3>1. h \in Seq(Field) => /\ RemainderBy(h, FirstHalf(w)) \in Dividends
                              /\ RemainderBy(h, SecondHalf(w)) \in Dividends
      BY <2>2, Halves, RemainderIs
    <3>2. h \in Seq(Field) =>
             /\ t[FirstHalf(w)][RemainderBy(h, FirstHalf(w))] \in Dividends
             /\ t[SecondHalf(w)][RemainderBy(h, SecondHalf(w))] \in Dividends
      BY <2>2, <3>1
    <3>3. NodeOf(t, w, h) \in Dividends
      BY <3>2, NodeType DEF NodeOf
    <3> QED BY <1>12, <3>3
  <2> HIDE DEF S
  <2>3. Domains \subseteq S
    BY <2>1, <2>2, TreeInduction
  <2> QED BY <2>3 DEF S
<1>14. TreeEvaluate(g, v) \in Dividends
  BY <1>10, <1>13
<1>15. TreeEvaluate(g, v) = NodeOf(t, v, g)
  BY <1>10, <1>12
<1> QED BY <1>10, <1>14, <1>15 DEF NodeOf

\* g has no leading zero, or loses it in the first division.
Proper(g, v) == Trimmed(g) \/ (Len(v) # 1 /\ Len(g) >= Len(v))

\* SubproductTree::evaluate (subproductdomain/src/lib.rs): unless it panics, it
\* gives the value of the polynomial at each point, in the order of the points,
\* however deep the tree and whatever the divisions on the way; and it does
\* not return a zero value.
THEOREM TreeEvaluateGivesValues ==
  ASSUME NEW v \in Domains, NEW g \in Seq(Field), TreeEvaluate(g, v) # Panic
  PROVE  /\ TreeEvaluate(g, v) = [k \in 1 .. Len(v) |-> Evaluate(g, v[k])]
         /\ Proper(g, v) => \A k \in 1 .. Len(v) : Evaluate(g, v[k]) # 0
<1> DEFINE Good(w, h) ==
             TreeEvaluate(h, w) # Panic =>
               /\ TreeEvaluate(h, w) \in Seq(Field) /\ Len(TreeEvaluate(h, w)) = Len(w)
               /\ \A k \in 1 .. Len(w) : TreeEvaluate(h, w)[k] = Evaluate(h, w[k])
               /\ Proper(h, w) => \A k \in 1 .. Len(w) : Evaluate(h, w[k]) # 0
           S == {w \in Domains : \A h \in Seq(Field) : Good(w, h)}
<1>1. ASSUME NEW w \in Domains, Len(w) = 1
      PROVE  w \in S
  <2> SUFFICES ASSUME NEW h \in Seq(Field), TreeEvaluate(h, w) # Panic
               PROVE  Good(w, h)
    OBVIOUS
  <2>1. h \in Dividends
    BY DEF Dividends
  <2>2. /\ h # <<>> /\ Degree(h) < 1 /\ DegreeDefined(h)
        /\ TreeEvaluate(h, w) = <<h[1]>>
    <3>1. TreeEvaluate(h, w) =
             NodeValue(w, h, TreeEvaluate(RemainderBy(h, FirstHalf(w)), FirstHalf(w)),
                             TreeEvaluate(RemainderBy(h, SecondHalf(w)), SecondHalf(w)))
      BY <2>1, EvaluationUnfolds
    <3>2. Degree(h) \in Int
      BY SeqIsPolynomial DEF Degree
    <3> QED BY <1>1, <3>1, <3>2 DEF NodeValue
  <2>3. Len(h) \in Nat \ {0} /\ \A i \in 1 .. Len(h) : h[i] \in Field
    BY <2>2, SeqIsPolynomial, EmptySeq
  <2>4. w[1] \in Field
    BY <1>1, DomainLength
  <2>5. Evaluate(h, w[1]) = h[1] /\ (Trimmed(h) => h[1] # 0)
    <3>1. CASE IsZero(h)
      <4>1. \A i \in 1 .. Len(h) : h[i] = 0
        BY <3>1, SeqIsPolynomial DEF IsZero
      <4>2. h[1] = 0 /\ h[Len(h)] = 0
        BY <2>3, <4>1
      <4>3. h \in Polynomials(Len(h))
        BY SeqIsPolynomial
      <4>4. h = ZeroPoly(Len(h))
        BY <4>1, <4>3 DEF ZeroPoly, Polynomials
      <4>5. Evaluate(h, w[1]) = 0
        BY <2>3, <2>4, <4>4, ZeroPolynomial
      <4> QED BY <2>2, <4>2, <4>5 DEF Trimmed
    <3>2. CASE ~IsZero(h)
      <4>1. Len(h) = 1 /\ h[1] # 0
        BY <2>2, <2>3, <3>2 DEF Degree, DegreeDefined
      <4>2. h \in Polynomials(0 + 1)
        <5>1. h \in Polynomials(Len(h))
          BY SeqIsPolynomial
        <5> QED BY <4>1, <5>1
      <4>3. Shifted(h, 0) \in Polynomials(0)
        BY <2>4, <4>2, EvaluateStep
      <4>4. Evaluate(h, w[1]) = Add(h[1], Mul(w[1], Evaluate(Shifted(h, 0), w[1])))
        BY <2>4, <4>2, EvaluateStep
      <4>5. Evaluate(Shifted(h, 0), w[1]) = 0
        BY <2>4, <4>3, EmptyPolynomial
      <4>6. h[1] \in Field
        BY <2>3, <4>1
      <4>7. Mul(w[1], 0) = 0 /\ Add(h[1], 0) = h[1]
        BY <2>4, <4>6, MulLaws, AddLaws
      <4> QED BY <4>1, <4>4, <4>5, <4>7
    <3> QED BY <3>1, <3>2
  <2>6. h[1] \in Field
    BY <2>3
  <2>7. <<h[1]>> \in Seq(Field) /\ Len(<<h[1]>>) = 1 /\ <<h[1]>>[1] = h[1]
    BY <2>6
  <2>8. \A k \in 1 .. Len(w) : k = 1
    BY <1>1
  <2> QED BY <1>1, <2>2, <2>5, <2>7, <2>8 DEF Proper
<1>2. ASSUME NEW w \in Domains, Len(w) # 1, FirstHalf(w) \in S, SecondHalf(w) \in S
      PROVE  w \in S
  <2> SUFFICES ASSUME NEW h \in Seq(Field), TreeEvaluate(h, w) # Panic
               PROVE  Good(w, h)
    OBVIOUS
  <2> DEFINE a == FirstHalf(w)  b == SecondHalf(w)
             r == RemainderBy(h, a)  s == RemainderBy(h, b)
             x == TreeEvaluate(r, a)  y == TreeEvaluate(s, b)
  <2>1. /\ a \in Domains /\ b \in Domains /\ Len(w) \in Nat
        /\ Half(w) \in 1 .. Len(w) - 1
        /\ Len(a) = Half(w) /\ Len(b) = Len(w) - Half(w)
        /\ \A i \in 1 .. Half(w) : a[i] = w[i]
        /\ \A i \in 1 .. Len(w) - Half(w) : b[i] = w[Half(w) + i]
    BY <1>2, Halves
  <2>2. /\ x # Panic /\ y # Panic /\ TreeEvaluate(h, w) = x \o y
        /\ DegreeDefined(h)
    <3>1. h \in Dividends
      BY DEF Dividends
    <3>2. TreeEvaluate(h, w) = NodeValue(w, h, x, y)
      BY <3>1, EvaluationUnfolds
    <3> HIDE DEF x, y
    <3> QED BY <1>2, <3>2 DEF NodeValue
  <2>3. r # Panic /\ s # Panic
    <3>1. ASSUME NEW c \in Domains PROVE TreeEvaluate(Panic, c) = Panic
      <4>1. Panic \in Dividends
        BY DEF Dividends
      <4>2. TreeEvaluate(Panic, c) =
             NodeValue(c, Panic,
                       TreeEvaluate(RemainderBy(Panic, FirstHalf(c)), FirstHalf(c)),
                       TreeEvaluate(RemainderBy(Panic, SecondHalf(c)), SecondHalf(c)))
        BY <4>1, EvaluationUnfolds
      <4> QED BY <4>2 DEF NodeValue
    <3> QED BY <2>1, <2>2, <3>1
  <2>4. /\ r \in Seq(Field) /\ s \in Seq(Field)
        /\ \A k \in 1 .. Len(a) : Evaluate(r, a[k]) = Evaluate(h, a[k])
        /\ \A k \in 1 .. Len(b) : Evaluate(s, b[k]) = Evaluate(h, b[k])
        /\ Trimmed(h) \/ Len(h) > Len(a) => Trimmed(r)
        /\ Trimmed(h) \/ Len(h) > Len(b) => Trimmed(s)
    BY <2>1, <2>2, <2>3, RemainderIs
  <2>5. /\ x \in Seq(Field) /\ Len(x) = Len(a)
        /\ \A k \in 1 .. Len(a) : x[k] = Evaluate(r, a[k])
        /\ Proper(r, a) => \A k \in 1 .. Len(a) : Evaluate(r, a[k]) # 0
    BY <1>2, <2>2, <2>4
  <2>6. /\ y \in Seq(Field) /\ Len(y) = Len(b)
        /\ \A k \in 1 .. Len(b) : y[k] = Evaluate(s, b[k])
        /\ Proper(s, b) => \A k \in 1 .. Len(b) : Evaluate(s, b[k]) # 0
    BY <1>2, <2>2, <2>4
  <2>7. Proper(h, w) => Trimmed(r) /\ Trimmed(s)
    <3>1. Len(h) \in Nat
      BY SeqIsPolynomial
    <3>2. Len(a) < Len(w) /\ Len(b) < Len(w)
      BY <2>1
    <3>3. Len(h) >= Len(w) => Len(h) > Len(a) /\ Len(h) > Len(b)
      BY <2>1, <3>1, <3>2
    <3> QED BY <2>4, <3>3 DEF Proper
  <2> HIDE DEF a, b, r, s, x, y
  <2>8. /\ x \o y \in Seq(Field) /\ Len(x \o y) = Len(a) + Len(b)
        /\ \A i \in 1 .. Len(a) : (x \o y)[i] = x[i]
        /\ \A i \in Len(a) + 1 .. Len(a) + Len(b) : (x \o y)[i] = y[i - Len(a)]
    <3>1. x \in Seq(Field) /\ y \in Seq(Field) /\ Len(x) = Len(a) /\ Len(y) = Len(b)
      BY <2>5, <2>6
    <3>2. /\ x \o y \in Seq(Field) /\ Len(x \o y) = Len(x) + Len(y)
          /\ \A i \in 1 .. Len(x) : (x \o y)[i] = x[i]
          /\ \A i \in Len(x) + 1 .. Len(x) + Len(y) : (x \o y)[i] = y[i - Len(x)]
      BY <3>1, ConcatOfField
    <3> QED BY <3>1, <3>2
  <2>9. ASSUME NEW k \in 1 .. Len(w)
        PROVE  /\ (x \o y)[k] = Evaluate(h, w[k])
               /\ Proper(h, w) => Evaluate(h, w[k]) # 0
    <3>1. CASE k \in 1 .. Half(w)
      <4>1. k \in 1 .. Len(a) /\ w[k] = a[k]
        BY <2>1, <3>1
      <4>2. Proper(h, w) => Proper(r, a)
        BY <2>7 DEF Proper
      <4> QED BY <2>4, <2>5, <2>8, <4>1, <4>2
    <3>2. CASE k \notin 1 .. Half(w)
      <4>1. /\ k - Half(w) \in 1 .. Len(b) /\ k \in Len(a) + 1 .. Len(a) + Len(b)
            /\ k - Len(a) = k - Half(w)
        BY <2>1, <3>2
      <4>2. k - Half(w) \in 1 .. Len(w) - Half(w) /\ Half(w) + (k - Half(w)) = k
        BY <2>1, <4>1
      <4>3. b[k - Half(w)] = w[k]
        BY <2>1, <4>2
      <4>4. Proper(h, w) => Proper(s, b)
        BY <2>7 DEF Proper
      <4> QED BY <2>4, <2>6, <2>8, <4>1, <4>3, <4>4
    <3> QED BY <3>1, <3>2
  <2>10. Len(x \o y) = Len(w)
    BY <2>1, <2>8
  <2> QED BY <2>2, <2>8, <2>9, <2>10
<1> HIDE DEF S
<1>3. v \in S
  BY <1>1, <1>2, TreeInduction
<1>4. Good(v, g)
  BY <1>3 DEF S
<1> DEFINE e == TreeEvaluate(g, v)
<1>5. /\ e \in Seq(Field) /\ Len(e) = Len(v)
      /\ \A k \in 1 .. Len(v) : e[k] = Evaluate(g, v[k])
      /\ Proper(g, v) => \A k \in 1 .. Len(v) : Evaluate(g, v[k]) # 0
  BY <1>4
<1> HIDE DEF e
<1>6. e = [k \in 1 .. Len(e) |-> e[k]]
  BY <1>5
<1>7. e = [k \in 1 .. Len(v) |-> Evaluate(g, v[k])]
  BY <1>5, <1>6
<1> QED BY <1>5, <1>7 DEF e

\* inverse_lagrange_coefficients (subproductdomain/src/lib.rs): unless it
\* panics, it gives each point the product of its differences to the others,
\* and none is zero, so that a repeated point makes it panic.
THEOREM LagrangeFromTreeIs ==
  ASSUME NEW u \in Domains, InverseLagrangeCoefficients(u) # Panic
  PROVE  /\ InverseLagrangeCoefficients(u) = [k \in 1 .. Len(u) |-> Spread(u, k)]
         /\ \A k \in 1 .. Len(u) : Spread(u, k) \in Field \ {0}
         /\ \A j, k \in 1 .. Len(u) : u[j] = u[k] => j = k
<1> DEFINE e == InverseLagrangeCoefficients(u)
<1>1. Len(u) \in Nat \ {0}
  BY DomainLength
<1>2. /\ e = [k \in 1 .. Len(u) |-> Spread(u, k)]
      /\ \A k \in 1 .. Len(u) : Spread(u, k) # 0
  <2>1. CASE Len(u) = 1
    <3>1. e = <<1>>
      BY <2>1 DEF InverseLagrangeCoefficients
    <3>2. Spread(u, 1) = 1
      <4> DEFINE f == [j \in 1 .. Len(u) |-> IF j = 1 THEN 1 ELSE Sub(u[1], u[j])]
      <4>1. Spread(u, 1) = ProductTo(f, 0 + 1)
        BY <2>1 DEF Spread
      <4>2. f[0 + 1] = 1
        BY <2>1
      <4> HIDE DEF f
      <4>3. ProductTo(f, 0) = 1 /\ ProductTo(f, 0 + 1) = Mul(ProductTo(f, 0), f[0 + 1])
        BY ProductUnfolds
      <4> QED BY <4>1, <4>2, <4>3, Closed, MulLaws
    <3>3. 1 .. Len(u) = {1}
      BY <2>1
    <3>4. <<1>> = [k \in {1} |-> 1]
      OBVIOUS
    <3> HIDE DEF e
    <3> QED BY <3>1, <3>2, <3>3, <3>4
  <2>2. CASE Len(u) # 1
    <3> DEFINE m == SubproductTree(u)
               g == Derivative(m)
    <3>1. m \in Seq(Field) /\ Len(m) = Len(u) + 1
          /\ \A k \in 1 .. Len(u) : Slope(m, u[k]) = Spread(u, k)
      BY TreeIs DEF Monic
    <3>2. e = TreeEvaluate(g, u)
      BY <2>2 DEF InverseLagrangeCoefficients
    <3> HIDE DEF m
    <3>3. g \in Seq(Field) /\ Len(g) = Len(u)
      BY <1>1, <3>1, DerivativeIs
    <3>4. \A k \in 1 .. Len(u) : Evaluate(g, u[k]) = Spread(u, k)
      BY <3>1 DEF Slope
    <3> HIDE DEF g
    <3>5. Proper(g, u)
      BY <1>1, <2>2, <3>3 DEF Proper
    <3>6. TreeEvaluate(g, u) # Panic
      BY <3>2
    <3>7. /\ TreeEvaluate(g, u) = [k \in 1 .. Len(u) |-> Evaluate(g, u[k])]
          /\ \A k \in 1 .. Len(u) : Evaluate(g, u[k]) # 0
      BY <3>3, <3>5, <3>6, TreeEvaluateGivesValues
    <3> HIDE DEF e
    <3> QED BY <3>2, <3>4, <3>7
  <2> QED BY <2>1, <2>2
<1>3. \A k \in 1 .. Len(u) : Spread(u, k) \in Field
  BY SpreadIs
<1>4. ASSUME NEW j \in 1 .. Len(u), NEW k \in 1 .. Len(u), u[j] = u[k], j # k
      PROVE  FALSE
  <2>1. Spread(u, k) = 0
    BY <1>4, SpreadIs
  <2> QED BY <1>2, <2>1
<1> QED BY <1>2, <1>3, <1>4

-----------------------------------------------------------------------------
(***************************************************************************)
(* Coefficients of sums and products.                                      *)
(***************************************************************************)

\* A sum of zeros.
LEMMA SumOfZeros ==
  ASSUME NEW f, NEW n \in Nat, \A i \in 1 .. n : f[i] = 0
  PROVE  SumTo(f, n) = 0
<1>1. \A i \in 1 .. 0 : f[i] \in Field
  OBVIOUS
<1>2. \A i \in 0 + 1 .. n : f[i] = 0
  OBVIOUS
<1>3. SumTo(f, n) = SumTo(f, 0)
  BY <1>1, <1>2, SumExtends
<1> QED BY <1>3, SumUnfolds

LEMMA PolyAddCoefficient ==
  ASSUME NEW p \in Seq(Field), NEW q \in Seq(Field), NEW i \in Nat \ {0}
  PROVE  Coefficient(PolyAdd(p, q), i) = Add(Coefficient(p, i), Coefficient(q, i))
<1> DEFINE n == Longer(p, q)
           d == [j \in 1 .. n |-> Add(Coefficient(p, j), Coefficient(q, j))]
<1>1. n \in Nat /\ Len(p) <= n /\ Len(q) <= n
  BY SeqIsPolynomial DEF Longer
<1>2. PolyAdd(p, q) = Truncate(d)
  BY DEF PolyAdd
<1>3. d \in Polynomials(n)
  <2>1. \A j \in 1 .. n : Add(Coefficient(p, j), Coefficient(q, j)) \in Field
    <3> TAKE j \in 1 .. n
    <3>1. j \in Int
      OBVIOUS
    <3>2. Coefficient(p, j) \in Field /\ Coefficient(q, j) \in Field
      BY <3>1, CoefficientIs
    <3> QED BY <3>2, Closed
  <2> QED BY <2>1 DEF Polynomials
<1>4. \A j \in 1 .. n : d[j] = Add(Coefficient(p, j), Coefficient(q, j))
  OBVIOUS
<1> HIDE DEF d, n
<1>5. d \in Seq(Field) /\ Len(d) = n
  BY <1>1, <1>3, PolynomialIsSeq
<1>6. Coefficient(PolyAdd(p, q), i) = Coefficient(d, i)
  BY <1>2, <1>5, TruncateIs DEF Agree
<1>7. CASE i \in 1 .. n
  BY <1>4, <1>5, <1>6, <1>7, CoefficientIs
<1>8. CASE i \notin 1 .. n
  <2>1. i \in Int /\ i \notin 1 .. Len(p) /\ i \notin 1 .. Len(q)
    BY <1>1, <1>8, SeqIsPolynomial
  <2>2. Coefficient(p, i) = 0 /\ Coefficient(q, i) = 0 /\ Coefficient(d, i) = 0
    BY <1>5, <1>8, <2>1, CoefficientIs
  <2>3. Add(0, 0) = 0
    BY AddLaws, Closed
  <2> QED BY <1>6, <2>2, <2>3
<1> QED BY <1>7, <1>8

\* The terms of the coefficient of a product.
Terms(p, q, i) ==
    [j \in 1 .. i |-> Mul(Coefficient(p, j), Coefficient(q, i + 1 - j))]

LEMMA TermsAre ==
  ASSUME NEW p \in Seq(Field), NEW q \in Seq(Field), NEW i \in Nat
  PROVE  \A j \in 1 .. i :
            /\ Terms(p, q, i)[j] = Mul(Coefficient(p, j), Coefficient(q, i + 1 - j))
            /\ Terms(p, q, i)[j] \in Field
            /\ Coefficient(p, j) = 0 \/ Coefficient(q, i + 1 - j) = 0
                  => Terms(p, q, i)[j] = 0
<1> TAKE j \in 1 .. i
<1>1. j \in Int /\ i + 1 - j \in Int
  OBVIOUS
<1>2. Coefficient(p, j) \in Field /\ Coefficient(q, i + 1 - j) \in Field
  BY <1>1, CoefficientIs
<1>3. Terms(p, q, i)[j] = Mul(Coefficient(p, j), Coefficient(q, i + 1 - j))
  BY DEF Terms
<1>4. Mul(Coefficient(p, j), Coefficient(q, i + 1 - j)) \in Field
  BY <1>2, Closed
<1>5. Coefficient(p, j) = 0 \/ Coefficient(q, i + 1 - j) = 0
        => Mul(Coefficient(p, j), Coefficient(q, i + 1 - j)) = 0
  BY <1>2, MulLaws
<1> QED BY <1>3, <1>4, <1>5

LEMMA ProductCoefficient ==
  ASSUME NEW p \in Seq(Field), NEW q \in Seq(Field), Len(p) # 0, NEW i \in Nat \ {0}
  PROVE  Coefficient(PolyMul(p, q), i) = SumTo(Terms(p, q, i), i)
<1> DEFINE n == Len(p) + Len(q) - 1
           d == RawMul(p, q, n)
<1>1. Len(p) \in Nat \ {0} /\ Len(q) \in Nat /\ n \in Nat
  BY SeqIsPolynomial
<1>2. Coefficient(PolyMul(p, q), i) = Coefficient(d, i)
  <2>1. Agree(d, PolyMul(p, q))
    BY <1>1, PolyMulIs
  <2> QED BY <2>1 DEF Agree
<1>3. \A j \in 1 .. n : d[j] = SumTo(Terms(p, q, j), j)
  BY DEF RawMul, Terms
<1> HIDE DEF d
<1>4. d \in Seq(Field) /\ Len(d) = n
  <2> HIDE DEF n
  <2>1. d \in Polynomials(n)
    BY <1>1, RawMulType DEF d
  <2> QED BY <1>1, <2>1, PolynomialIsSeq
<1>5. CASE i \in 1 .. n
  <2> HIDE DEF n
  <2> QED BY <1>2, <1>3, <1>4, <1>5, CoefficientIs
<1>6. CASE i \notin 1 .. n
  <2>1. \A j \in 1 .. i : j \notin 1 .. Len(p) \/ i + 1 - j \notin 1 .. Len(q)
    BY <1>1, <1>6
  <2>2. \A j \in 1 .. i : Coefficient(p, j) = 0 \/ Coefficient(q, i + 1 - j) = 0
    <3> TAKE j \in 1 .. i
    <3>1. j \in Int /\ i + 1 - j \in Int
      OBVIOUS
    <3> QED BY <2>1, <3>1, CoefficientIs
  <2>3. \A j \in 1 .. i : Terms(p, q, i)[j] = 0
    BY <2>2, TermsAre
  <2>4. SumTo(Terms(p, q, i), i) = 0
    BY <2>3, SumOfZeros
  <2>5. Coefficient(d, i) = 0
    <3> HIDE DEF n
    <3> QED BY <1>4, <1>6, CoefficientIs
  <2> QED BY <1>2, <2>4, <2>5
<1> QED BY <1>5, <1>6

-----------------------------------------------------------------------------
(***************************************************************************)
(* Power series.  Coefficients are counted from 0.                         *)
(***************************************************************************)
Series == [Nat -> Field]

\* The terms of coefficient i of the product.
Products(p, q, i) == [j \in 1 .. i + 1 |-> Mul(p[j - 1], q[i + 1 - j])]

Times(p, q) == [i \in Nat |-> SumTo(Products(p, q, i), i + 1)]

One == [i \in Nat |-> IF i = 0 THEN 1 ELSE 0]

\* The series without its constant term, divided by x.
After(p) == [i \in Nat |-> p[i + 1]]

LEMMA ProductsAre ==
  ASSUME NEW p \in Series, NEW q \in Series, NEW i \in Nat
  PROVE  \A j \in 1 .. i + 1 :
            /\ j - 1 \in 0 .. i /\ i + 1 - j \in 0 .. i
            /\ p[j - 1] \in Field /\ q[i + 1 - j] \in Field
            /\ Products(p, q, i)[j] = Mul(p[j - 1], q[i + 1 - j])
            /\ Products(p, q, i)[j] \in Field
<1> TAKE j \in 1 .. i + 1
<1>1. j - 1 \in 0 .. i /\ i + 1 - j \in 0 .. i
  OBVIOUS
<1>2. p[j - 1] \in Field /\ q[i + 1 - j] \in Field
  BY <1>1 DEF Series
<1>3. Products(p, q, i)[j] = Mul(p[j - 1], q[i + 1 - j])
  BY DEF Products
<1> QED BY <1>1, <1>2, <1>3, Closed

LEMMA AfterIs ==
  ASSUME NEW p \in Series
  PROVE  /\ \A i \in Nat : p[i] \in Field
         /\ After(p) \in Series /\ \A i \in Nat : After(p)[i] = p[i + 1]
BY DEF Series, After

LEMMA TimesIs ==
  ASSUME NEW p \in Series, NEW q \in Series
  PROVE  /\ Times(p, q) \in Series
         /\ \A i \in Nat : Times(p, q)[i] = SumTo(Products(p, q, i), i + 1)
         /\ Times(p, q)[0] = Mul(p[0], q[0])
         /\ \A i \in Nat :
              /\ Times(p, q)[i + 1] = Add(Mul(p[0], q[i + 1]), Times(After(p), q)[i])
              /\ Times(p, q)[i + 1] = Add(Times(p, After(q))[i], Mul(p[i + 1], q[0]))
<1>1. \A i \in Nat : Times(p, q)[i] = SumTo(Products(p, q, i), i + 1)
  BY DEF Times
<1>2. \A i \in Nat : SumTo(Products(p, q, i), i + 1) \in Field
  <2> TAKE i \in Nat
  <2>1. \A j \in 1 .. i + 1 : Products(p, q, i)[j] \in Field
    BY ProductsAre
  <2> QED BY <2>1, SumInField
<1>3. Times(p, q) \in Series
  BY <1>2 DEF Times, Series
<1>4. Times(p, q)[0] = Mul(p[0], q[0])
  <2> DEFINE f == Products(p, q, 0)
  <2>1. 0 \in Nat /\ 1 \in 1 .. 0 + 1 /\ 1 - 1 = 0 /\ 0 + 1 - 1 = 0 /\ 0 + 1 = 1
    OBVIOUS
  <2>2. f[1] = Mul(p[0], q[0]) /\ f[1] \in Field
    BY <2>1, ProductsAre
  <2>3. Times(p, q)[0] = SumTo(f, 0 + 1)
    BY <1>1
  <2> HIDE DEF f
  <2>4. SumTo(f, 0 + 1) = Add(SumTo(f, 0), f[0 + 1]) /\ SumTo(f, 0) = 0
    BY SumUnfolds
  <2>5. Add(0, f[1]) = f[1]
    BY <2>2, AddLaws
  <2> QED BY <2>1, <2>2, <2>3, <2>4, <2>5
<1>5. ASSUME NEW i \in Nat
      PROVE  /\ Times(p, q)[i + 1] = Add(Mul(p[0], q[i + 1]), Times(After(p), q)[i])
             /\ Times(p, q)[i + 1] = Add(Times(p, After(q))[i], Mul(p[i + 1], q[0]))
  <2> DEFINE f == Products(p, q, i + 1)
             g == Products(After(p), q, i)
             h == Products(p, After(q), i)
             n == i + 1
  <2>1. After(p) \in Series /\ After(q) \in Series /\ i + 1 \in Nat /\ n \in Nat
        /\ n + 1 \in 1 .. n + 1 /\ 1 \in 1 .. n + 1
    BY AfterIs
  <2>2. \A j \in 1 .. n + 1 : f[j] = Mul(p[j - 1], q[n + 1 - j]) /\ f[j] \in Field
    BY <2>1, ProductsAre
  <2>3. \A j \in 1 .. n : g[j] = Mul(After(p)[j - 1], q[n - j]) /\ g[j] \in Field
    BY <2>1, ProductsAre
  <2>4. \A j \in 1 .. n : h[j] = Mul(p[j - 1], After(q)[n - j]) /\ h[j] \in Field
    BY <2>1, ProductsAre
  <2>5. /\ Times(p, q)[i + 1] = SumTo(f, n + 1)
        /\ Times(After(p), q)[i] = SumTo(g, n)
        /\ Times(p, After(q))[i] = SumTo(h, n)
    BY <2>1 DEF Times
  <2> HIDE DEF f, g, h
  <2>6. f[1] = Mul(p[0], q[i + 1]) /\ f[n + 1] = Mul(p[i + 1], q[0])
    <3>1. f[1] = Mul(p[1 - 1], q[n + 1 - 1]) /\ f[n + 1] = Mul(p[n + 1 - 1], q[n + 1 - (n + 1)])
      BY <2>1, <2>2
    <3>2. 1 - 1 = 0 /\ n + 1 - 1 = i + 1 /\ n + 1 - (n + 1) = 0
      OBVIOUS
    <3> QED BY <3>1, <3>2
  <2>7. \A j \in 1 .. n : g[j] = f[j + 1]
    <3> TAKE j \in 1 .. n
    <3>1. j + 1 \in 1 .. n + 1 /\ j + 1 - 1 = j /\ n + 1 - (j + 1) = n - j
          /\ j - 1 \in Nat /\ (j - 1) + 1 = j
      OBVIOUS
    <3>2. f[j + 1] = Mul(p[j], q[n - j])
      BY <2>2, <3>1
    <3>3. After(p)[j - 1] = p[j]
      BY <3>1, AfterIs
    <3> QED BY <2>3, <3>2, <3>3
  <2>8. \A j \in 1 .. n : h[j] = f[j]
    <3> TAKE j \in 1 .. n
    <3>1. j \in 1 .. n + 1 /\ n - j \in Nat /\ (n - j) + 1 = n + 1 - j
      OBVIOUS
    <3>2. f[j] = Mul(p[j - 1], q[n + 1 - j])
      BY <2>2, <3>1
    <3>3. After(q)[n - j] = q[n + 1 - j]
      BY <3>1, AfterIs
    <3> QED BY <2>4, <3>2, <3>3
  <2>9. SumTo(f, n + 1) = Add(f[1], SumTo(g, n))
    BY <2>1, <2>2, <2>7, SumFirst
  <2>10. SumTo(f, n + 1) = Add(SumTo(h, n), f[n + 1])
    <3>1. SumTo(f, n + 1) = Add(SumTo(f, n), f[n + 1])
      BY <2>1, SumUnfolds
    <3>2. SumTo(h, n) = SumTo(f, n)
      BY <2>1, <2>8, SameSum
    <3> QED BY <3>1, <3>2
  <2> QED BY <2>5, <2>6, <2>9, <2>10
<1> QED BY <1>1, <1>3, <1>4, <1>5

\* A coefficient of a product depends on the coefficients up to it.
LEMMA TimesAgree ==
  ASSUME NEW p \in Series, NEW q \in Series, NEW r \in Series, NEW i \in Nat,
         \A j \in 0 .. i : q[j] = r[j]
  PROVE  Times(p, q)[i] = Times(p, r)[i]
<1>1. \A j \in 1 .. i + 1 : Products(p, q, i)[j] = Products(p, r, i)[j]
  BY ProductsAre
<1>2. SumTo(Products(p, q, i), i + 1) = SumTo(Products(p, r, i), i + 1)
  BY <1>1, SameSum
<1> QED BY <1>2, TimesIs

LEMMA TimesLinear ==
  ASSUME NEW a \in Series, NEW b \in Series, NEW c \in Series, NEW q \in Series,
         NEW s \in Field, NEW i \in Nat,
         \A j \in 0 .. i : c[j] = Add(Mul(s, a[j]), b[j])
  PROVE  Times(c, q)[i] = Add(Mul(s, Times(a, q)[i]), Times(b, q)[i])
<1> DEFINE n == i + 1
           f == Products(a, q, i)
           g == Products(b, q, i)
           h == Products(c, q, i)
           sf == [j \in 1 .. n |-> Mul(s, f[j])]
<1>1. n \in Nat
  OBVIOUS
<1>2. \A j \in 1 .. n : f[j] \in Field /\ g[j] \in Field /\ h[j] \in Field
  BY ProductsAre
<1>3. \A j \in 1 .. n : sf[j] = Mul(s, f[j]) /\ sf[j] \in Field
  BY <1>2, Closed
<1>4. \A j \in 1 .. n : h[j] = Add(sf[j], g[j])
  <2> TAKE j \in 1 .. n
  <2> DEFINE x == a[j - 1]  y == b[j - 1]  z == q[i + 1 - j]
  <2>1. /\ x \in Field /\ y \in Field /\ z \in Field
        /\ f[j] = Mul(x, z) /\ g[j] = Mul(y, z) /\ h[j] = Mul(c[j - 1], z)
        /\ j - 1 \in 0 .. i
    BY ProductsAre
  <2>2. c[j - 1] = Add(Mul(s, x), y)
    BY <2>1
  <2> HIDE DEF x, y, z
  <2>3. Mul(s, x) \in Field /\ Add(Mul(s, x), y) \in Field
    BY <2>1, Closed
  <2>4. Mul(Add(Mul(s, x), y), z) = Mul(z, Add(Mul(s, x), y))
    BY <2>1, <2>3, AddCommutes
  <2>5. Mul(z, Add(Mul(s, x), y)) = Add(Mul(z, Mul(s, x)), Mul(z, y))
    BY <2>1, <2>3, Distributes
  <2>6. Mul(z, Mul(s, x)) = Mul(Mul(s, x), z) /\ Mul(z, y) = Mul(y, z)
    BY <2>1, <2>3, AddCommutes
  <2>7. Mul(Mul(s, x), z) = Mul(s, Mul(x, z))
    BY <2>1, MulAssociates
  <2> QED BY <1>3, <2>1, <2>2, <2>4, <2>5, <2>6, <2>7
<1> HIDE DEF f, g, h, sf, n
<1>5. SumTo(h, n) = Add(SumTo(sf, n), SumTo(g, n))
  BY <1>1, <1>2, <1>3, <1>4, SumOfSums
<1>6. SumTo(sf, n) = Mul(s, SumTo(f, n))
  BY <1>1, <1>2, <1>3, SumScaled
<1> QED BY <1>5, <1>6, TimesIs DEF f, g, h, n

LEMMA TimesCommutes ==
  ASSUME NEW p \in Series, NEW q \in Series
  PROVE  Times(p, q) = Times(q, p)
<1> DEFINE S == {i \in Nat : \A a, b \in Series : Times(a, b)[i] = Times(b, a)[i]}
<1>1. 0 \in S
  <2> SUFFICES ASSUME NEW a \in Series, NEW b \in Series
               PROVE  Times(a, b)[0] = Times(b, a)[0]
    OBVIOUS
  <2>1. a[0] \in Field /\ b[0] \in Field
    BY AfterIs
  <2>2. Times(a, b)[0] = Mul(a[0], b[0]) /\ Times(b, a)[0] = Mul(b[0], a[0])
    BY TimesIs
  <2> QED BY <2>1, <2>2, AddCommutes
<1>2. ASSUME NEW i \in Nat, i \in S
      PROVE  i + 1 \in S
  <2> SUFFICES ASSUME NEW a \in Series, NEW b \in Series
               PROVE  Times(a, b)[i + 1] = Times(b, a)[i + 1]
    OBVIOUS
  <2>1. /\ Times(a, b)[i + 1] = Add(Mul(a[0], b[i + 1]), Times(After(a), b)[i])
        /\ Times(b, a)[i + 1] = Add(Times(b, After(a))[i], Mul(b[i + 1], a[0]))
    BY TimesIs
  <2>2. After(a) \in Series /\ a[0] \in Field /\ b[i + 1] \in Field
    BY AfterIs
  <2>3. Times(After(a), b)[i] = Times(b, After(a))[i]
    BY <1>2, <2>2
  <2>4. Mul(a[0], b[i + 1]) = Mul(b[i + 1], a[0]) /\ Mul(a[0], b[i + 1]) \in Field
    BY <2>2, AddCommutes, Closed
  <2>5. Times(b, After(a))[i] \in Field
    BY <2>2, TimesIs, AfterIs
  <2> QED BY <2>1, <2>3, <2>4, <2>5, AddCommutes
<1> HIDE DEF S
<1>3. Nat \subseteq S
  BY <1>1, <1>2, Induction
<1>4. \A i \in Nat : Times(p, q)[i] = Times(q, p)[i]
  BY <1>3 DEF S
<1>5. Times(p, q) \in [Nat -> Field] /\ Times(q, p) \in [Nat -> Field]
  BY TimesIs DEF Series
<1> QED BY <1>4, <1>5

LEMMA TimesAssociates ==
  ASSUME NEW p \in Series, NEW q \in Series, NEW r \in Series
  PROVE  Times(Times(p, q), r) = Times(p, Times(q, r))
<1> DEFINE S == {i \in Nat : \A a, b, c \in Series :
                    Times(Times(a, b), c)[i] = Times(a, Times(b, c))[i]}
<1>1. 0 \in S
  <2> SUFFICES ASSUME NEW a \in Series, NEW b \in Series, NEW c \in Series
               PROVE  Times(Times(a, b), c)[0] = Times(a, Times(b, c))[0]
    OBVIOUS
  <2>1. a[0] \in Field /\ b[0] \in Field /\ c[0] \in Field
    BY AfterIs
  <2>2. Times(a, b) \in Series /\ Times(b, c) \in Series
    BY TimesIs
  <2>3. /\ Times(Times(a, b), c)[0] = Mul(Times(a, b)[0], c[0])
        /\ Times(a, Times(b, c))[0] = Mul(a[0], Times(b, c)[0])
        /\ Times(a, b)[0] = Mul(a[0], b[0]) /\ Times(b, c)[0] = Mul(b[0], c[0])
    BY <2>2, TimesIs
  <2> QED BY <2>1, <2>3, MulAssociates
<1>2. ASSUME NEW i \in Nat, i \in S
      PROVE  i + 1 \in S
  <2> SUFFICES ASSUME NEW a \in Series, NEW b \in Series, NEW c \in Series
               PROVE  Times(Times(a, b), c)[i + 1] = Times(a, Times(b, c))[i + 1]
    OBVIOUS
  <2> DEFINE ab == Times(a, b)  bc == Times(b, c)  a_1 == After(a)  b_1 == After(b)
             x == a[0]  y == b[0]  z == c[i + 1]
  <2>1. a_1 \in Series /\ b_1 \in Series /\ x \in Field /\ y \in Field /\ z \in Field
    BY AfterIs
  <2>2. ab \in Series /\ bc \in Series /\ Times(a_1, b) \in Series /\ After(ab) \in Series
    BY <2>1, TimesIs, AfterIs
  <2>3. Times(ab, c)[i + 1] = Add(Mul(Mul(x, y), z), Times(After(ab), c)[i])
    BY <2>2, TimesIs
  <2>4. Times(After(ab), c)[i] = Add(Mul(x, Times(b_1, c)[i]), Times(Times(a_1, b), c)[i])
    <3>1. \A j \in 0 .. i : After(ab)[j] = Add(Mul(x, b_1[j]), Times(a_1, b)[j])
      <4> TAKE j \in 0 .. i
      <4>1. After(ab)[j] = ab[j + 1] /\ b_1[j] = b[j + 1]
        BY <2>2, AfterIs
      <4> QED BY <4>1, TimesIs
    <3>2. /\ After(ab) \in Series /\ b_1 \in Series /\ Times(a_1, b) \in Series
          /\ x \in Field
      BY <2>1, <2>2
    <3> HIDE DEF ab, a_1, b_1, x
    <3> QED BY <3>1, <3>2, TimesLinear
  <2>5. Times(Times(a_1, b), c)[i] = Times(a_1, bc)[i]
    BY <1>2, <2>1
  <2>6. Times(a, bc)[i + 1] = Add(Mul(x, bc[i + 1]), Times(a_1, bc)[i])
    BY <2>2, TimesIs
  <2>7. bc[i + 1] = Add(Mul(y, z), Times(b_1, c)[i])
    BY TimesIs
  <2>8. Times(b_1, c)[i] \in Field /\ Times(a_1, bc)[i] \in Field
    BY <2>1, <2>2, TimesIs, AfterIs
  <2> DEFINE v == Times(b_1, c)[i]  w == Times(a_1, bc)[i]
  <2>9. /\ Times(ab, c)[i + 1] = Add(Mul(Mul(x, y), z), Add(Mul(x, v), w))
        /\ Times(a, bc)[i + 1] = Add(Mul(x, Add(Mul(y, z), v)), w)
        /\ v \in Field /\ w \in Field
    BY <2>3, <2>4, <2>5, <2>6, <2>7, <2>8
  <2> HIDE DEF v, w, x, y, z, ab, bc
  <2>10. Mul(Mul(x, y), z) = Mul(x, Mul(y, z))
    BY <2>1, MulAssociates
  <2>15. Mul(y, z) \in Field
    BY <2>1, Closed
  <2>11. Mul(x, Add(Mul(y, z), v)) = Add(Mul(x, Mul(y, z)), Mul(x, v))
    BY <2>1, <2>9, <2>15, Distributes
  <2>12. Mul(x, Mul(y, z)) \in Field /\ Mul(x, v) \in Field
    BY <2>1, <2>9, <2>15, Closed
  <2>13. Add(Add(Mul(x, Mul(y, z)), Mul(x, v)), w) = Add(Mul(x, Mul(y, z)), Add(Mul(x, v), w))
    BY <2>9, <2>12, AddLaws
  <2>14. Times(ab, c)[i + 1] = Times(a, bc)[i + 1]
    BY <2>9, <2>10, <2>11, <2>13
  <2> QED BY <2>14 DEF ab, bc
<1> HIDE DEF S
<1>3. Nat \subseteq S
  BY <1>1, <1>2, Induction
<1>4. \A i \in Nat : Times(Times(p, q), r)[i] = Times(p, Times(q, r))[i]
  BY <1>3 DEF S
<1>5. /\ Times(Times(p, q), r) \in [Nat -> Field]
      /\ Times(p, Times(q, r)) \in [Nat -> Field]
  BY TimesIs DEF Series
<1> QED BY <1>4, <1>5

LEMMA OneIs == One \in Series /\ One[0] = 1 /\ \A i \in Nat \ {0} : One[i] = 0
BY Closed DEF One, Series

LEMMA TimesOne ==
  ASSUME NEW q \in Series, NEW i \in Nat
  PROVE  Times(One, q)[i] = q[i]
<1> DEFINE f == Products(One, q, i)
<1>1. \A j \in 1 .. i + 1 : f[j] = IF j = 1 THEN q[i] ELSE 0
  <2> TAKE j \in 1 .. i + 1
  <2>1. f[j] = Mul(One[j - 1], q[i + 1 - j]) /\ q[i + 1 - j] \in Field
    BY OneIs, ProductsAre
  <2> HIDE DEF f
  <2>2. CASE j = 1
    <3>1. One[j - 1] = 1 /\ i + 1 - j = i
      BY <2>2, OneIs
    <3> QED BY <2>1, <2>2, <3>1, MulLaws
  <2>3. CASE j # 1
    <3>1. j - 1 \in Nat \ {0}
      BY <2>3
    <3>2. One[j - 1] = 0
      BY <3>1, OneIs
    <3> QED BY <2>1, <2>3, <3>2, MulLaws
  <2> QED BY <2>2, <2>3
<1>2. q[i] \in Field /\ i + 1 \in Nat /\ 1 \in 1 .. i + 1
  BY AfterIs
<1>3. Times(One, q)[i] = SumTo(f, i + 1)
  BY OneIs, TimesIs
<1> HIDE DEF f
<1> QED BY <1>1, <1>2, <1>3, SumSingle

\* The product of two series that begin with n zeros begins with 2 n.
LEMMA TimesSmall ==
  ASSUME NEW p \in Series, NEW q \in Series, NEW n \in Nat,
         \A i \in 0 .. n - 1 : p[i] = 0 /\ q[i] = 0,
         NEW i \in 0 .. 2 * n - 1
  PROVE  Times(p, q)[i] = 0
<1>1. i \in Nat /\ i + 1 \in Nat
  OBVIOUS
<1>2. \A j \in 1 .. i + 1 : Products(p, q, i)[j] = 0
  <2> TAKE j \in 1 .. i + 1
  <2>1. /\ p[j - 1] \in Field /\ q[i + 1 - j] \in Field
        /\ Products(p, q, i)[j] = Mul(p[j - 1], q[i + 1 - j])
    BY <1>1, ProductsAre
  <2>2. j - 1 \in 0 .. n - 1 \/ i + 1 - j \in 0 .. n - 1
    OBVIOUS
  <2>3. p[j - 1] = 0 \/ q[i + 1 - j] = 0
    BY <2>2
  <2> QED BY <2>1, <2>3, MulLaws
<1>3. SumTo(Products(p, q, i), i + 1) = 0
  BY <1>1, <1>2, SumOfZeros
<1> QED BY <1>1, <1>3, TimesIs

\* A step of the Newton iteration doubles the number of coefficients of the
\* inverse that are right.
LEMMA NewtonDoubles ==
  ASSUME NEW D \in Series, NEW A \in Series, NEW B \in Series, NEW n \in Nat,
         \A i \in 0 .. n - 1 : Times(D, A)[i] = One[i],
         \A i \in 0 .. 2 * n - 1 :
            B[i] = Sub(Add(A[i], A[i]), Times(D, Times(A, A))[i])
  PROVE  \A i \in 0 .. 2 * n - 1 : Times(D, B)[i] = One[i]
<1> DEFINE E == Times(D, A)
           C == Times(D, Times(A, A))
           W == [i \in Nat |-> Sub(E[i], One[i])]
<1>1. E \in Series /\ Times(A, A) \in Series /\ C \in Series
  <2>1. Times(A, A) \in Series
    BY TimesIs
  <2> QED BY <2>1, TimesIs
<1>2. Times(D, C) = Times(E, E)
  <2>1. C = Times(E, A)
    BY TimesAssociates
  <2> HIDE DEF C, E
  <2>2. Times(D, Times(E, A)) = Times(Times(D, E), A)
    BY <1>1, TimesAssociates
  <2>3. Times(D, E) = Times(E, D)
    BY <1>1, TimesCommutes
  <2>4. Times(Times(E, D), A) = Times(E, Times(D, A))
    BY <1>1, TimesAssociates
  <2> QED BY <2>1, <2>2, <2>3, <2>4 DEF E
<1> HIDE DEF C
<1>3. ASSUME NEW i \in 0 .. 2 * n - 1
      PROVE  Times(D, B)[i] = Sub(Add(E[i], E[i]), Times(E, E)[i])
  <2> DEFINE AA == [j \in Nat |-> Add(A[j], A[j])]
             s == Neg(1)
  <2>1. s \in Field /\ i \in Nat /\ 1 \in Field
    BY Closed
  <2>2. \A j \in Nat : AA[j] = Add(Mul(1, A[j]), A[j]) /\ AA[j] \in Field
    BY AfterIs, MulLaws, Closed
  <2>3. AA \in Series
    BY <2>2 DEF Series
  <2>4. \A x, y \in Field : Sub(x, y) = Add(Mul(s, y), x)
    <3> TAKE x, y \in Field
    <3>1. x \in Int /\ y \in Int
      BY FieldIsInt
    <3>2. Mul(s, y) = Neg(y)
      <4>1. 1 \in Int /\ -1 \in Int /\ (-1) * y = -y
        BY <3>1
      <4>2. Mul(Residue(-1), y) = Residue((-1) * y)
        BY <3>1, <4>1, Reduced
      <4>3. Neg(1) = Residue(-1) /\ Neg(y) = Residue(-y)
        BY <3>1, <4>1, Reduced
      <4> QED BY <4>1, <4>2, <4>3
    <3>3. Sub(x, y) = Residue(x - y) /\ Neg(y) = Residue(-y)
      BY <3>1, Reduced
    <3>5. Add(Residue(-y), x) = Residue(-y + x)
      <4>1. -y \in Int
        BY <3>1
      <4> QED BY <3>1, <4>1, Reduced
    <3>4. x - y = -y + x
      BY <3>1
    <3> QED BY <3>2, <3>3, <3>4, <3>5
  <2>5. \A j \in 0 .. i : B[j] = Add(Mul(s, C[j]), AA[j])
    <3> TAKE j \in 0 .. i
    <3>1. j \in 0 .. 2 * n - 1 /\ j \in Nat
      OBVIOUS
    <3>2. B[j] = Sub(AA[j], C[j])
      BY <3>1 DEF C
    <3>3. AA[j] \in Field /\ C[j] \in Field
      BY <1>1, <2>2, <3>1, AfterIs
    <3> QED BY <2>4, <3>2, <3>3
  <2>6. \A j \in 0 .. i : AA[j] = Add(Mul(1, A[j]), A[j])
    BY <2>2
  <2> HIDE DEF AA, s
  <2>7. Times(B, D)[i] = Add(Mul(s, Times(C, D)[i]), Times(AA, D)[i])
    BY <1>1, <2>1, <2>3, <2>5, TimesLinear
  <2>8. Times(AA, D)[i] = Add(Mul(1, Times(A, D)[i]), Times(A, D)[i])
    BY <2>1, <2>3, <2>6, TimesLinear
  <2>9. Times(B, D) = Times(D, B) /\ Times(C, D) = Times(D, C) /\ Times(A, D) = E
    BY <1>1, TimesCommutes
  <2>10. E[i] \in Field /\ Times(E, E)[i] \in Field
    BY <1>1, <2>1, TimesIs, AfterIs
  <2>11. Mul(1, E[i]) = E[i]
    BY <2>10, MulLaws
  <2>12. Add(E[i], E[i]) \in Field
    BY <2>10, Closed
  <2>13. Times(D, B)[i] = Add(Mul(s, Times(E, E)[i]), Add(E[i], E[i]))
    BY <1>2, <2>7, <2>8, <2>9, <2>11
  <2> QED BY <2>4, <2>10, <2>12, <2>13
<1> HIDE DEF E
<1>4. W \in Series /\ \A i \in Nat : /\ W[i] = Sub(E[i], One[i]) /\ W[i] \in Field
                                     /\ E[i] \in Field /\ One[i] \in Field
                                     /\ E[i] = Add(Mul(1, One[i]), W[i])
  <2>1. \A i \in Nat : W[i] \in Field /\ E[i] \in Field /\ One[i] \in Field
    BY <1>1, OneIs, AfterIs, Closed
  <2>2. W \in Series
    BY <2>1 DEF Series
  <2>3. \A i \in Nat : E[i] = Add(Mul(1, One[i]), W[i])
    BY <2>1, MulLaws, Differences
  <2> QED BY <2>1, <2>2, <2>3
<1>5. \A i \in 0 .. n - 1 : W[i] = 0
  <2> TAKE i \in 0 .. n - 1
  <2>1. i \in Nat /\ E[i] = One[i]
    BY DEF E
  <2> QED BY <1>4, <2>1, SubLaws
<1> HIDE DEF W
<1> SUFFICES ASSUME NEW i \in 0 .. 2 * n - 1 PROVE Times(D, B)[i] = One[i]
  OBVIOUS
<1>6. i \in Nat /\ 1 \in Field
  BY Closed
<1>7. Times(E, E)[i] = Add(E[i], W[i])
  <2>1. \A j \in 0 .. i : E[j] = Add(Mul(1, One[j]), W[j])
    BY <1>4
  <2>2. Times(E, E)[i] = Add(Mul(1, Times(One, E)[i]), Times(W, E)[i])
    BY <1>1, <1>4, <1>6, <2>1, OneIs, TimesLinear
  <2>3. Times(E, W)[i] = Add(Mul(1, Times(One, W)[i]), Times(W, W)[i])
    BY <1>1, <1>4, <1>6, <2>1, OneIs, TimesLinear
  <2>4. Times(One, E)[i] = E[i] /\ Times(One, W)[i] = W[i]
    BY <1>1, <1>4, <1>6, TimesOne
  <2>5. Times(W, W)[i] = 0
    BY <1>4, <1>5, TimesSmall
  <2>6. Times(W, E) = Times(E, W)
    BY <1>1, <1>4, TimesCommutes
  <2>7. E[i] \in Field /\ W[i] \in Field
    BY <1>4, <1>6
  <2>8. Mul(1, E[i]) = E[i] /\ Mul(1, W[i]) = W[i] /\ Add(W[i], 0) = W[i]
    BY <2>7, MulLaws, AddLaws
  <2> QED BY <2>2, <2>3, <2>4, <2>5, <2>6, <2>8
<1>8. Sub(Add(E[i], E[i]), Add(E[i], W[i])) = One[i]
  <2> DEFINE e == E[i]  o == One[i]
  <2>1. e \in Field /\ o \in Field /\ W[i] = Sub(e, o) /\ e \in Int /\ o \in Int
    BY <1>4, <1>6, FieldIsInt
  <2> HIDE DEF e, o
  <2>2. Add(e, e) = Residue(e + e) /\ Sub(e, o) = Residue(e - o)
    BY <2>1, Reduced
  <2>3. Add(e, Residue(e - o)) = Residue(e + (e - o))
    BY <2>1, Reduced
  <2>4. Sub(Residue(e + e), Residue(e + (e - o))) = Residue(o)
    <3>1. e + e \in Int /\ e + (e - o) \in Int
      BY <2>1
    <3>2. Residue(e + (e - o)) \in Int
      BY <3>1, Reduced, FieldIsInt
    <3>3. Sub(Residue(e + e), Residue(e + (e - o))) = Residue((e + e) - Residue(e + (e - o)))
      BY <3>1, <3>2, Reduced
    <3>4. Sub(e + e, Residue(e + (e - o))) = Residue((e + e) - Residue(e + (e - o)))
      BY <3>1, <3>2, Reduced
    <3>5. Sub(e + e, Residue(e + (e - o))) = Residue((e + e) - (e + (e - o)))
      BY <3>1, Reduced
    <3>6. (e + e) - (e + (e - o)) = o
      BY <2>1
    <3> QED BY <3>3, <3>4, <3>5, <3>6
  <2>5. Residue(o) = o
    BY <2>1, ResidueFixed
  <2>6. Sub(Add(e, e), Add(e, W[i])) = o
    BY <2>1, <2>2, <2>3, <2>4, <2>5
  <2> QED BY <2>6 DEF e, o
<1> QED BY <1>3, <1>7, <1>8

-----------------------------------------------------------------------------
(***************************************************************************)
(* Sequences of coefficients as power series.                              *)
(***************************************************************************)
SeriesOf(p) == [i \in Nat |-> Coefficient(p, i + 1)]

LEMMA SeriesIs ==
  ASSUME NEW p \in Seq(Field)
  PROVE  SeriesOf(p) \in Series /\ \A i \in Nat : SeriesOf(p)[i] = Coefficient(p, i + 1)
<1>1. \A i \in Nat : Coefficient(p, i + 1) \in Field
  <2> TAKE i \in Nat
  <2>1. i + 1 \in Int
    OBVIOUS
  <2> QED BY <2>1, CoefficientIs
<1> QED BY <1>1 DEF SeriesOf, Series

LEMMA ProductSeries ==
  ASSUME NEW p \in Seq(Field), NEW q \in Seq(Field), Len(p) # 0
  PROVE  SeriesOf(PolyMul(p, q)) = Times(SeriesOf(p), SeriesOf(q))
<1>1. /\ SeriesOf(p) \in Series /\ SeriesOf(q) \in Series /\ PolyMul(p, q) \in Seq(Field)
      /\ SeriesOf(PolyMul(p, q)) \in Series
  <2>1. PolyMul(p, q) \in Seq(Field)
    BY PolyMulIs
  <2> QED BY <2>1, SeriesIs
<1>2. ASSUME NEW i \in Nat
      PROVE  SeriesOf(PolyMul(p, q))[i] = Times(SeriesOf(p), SeriesOf(q))[i]
  <2>1. i + 1 \in Nat /\ i + 1 \in Nat \ {0}
    OBVIOUS
  <2>2. SeriesOf(PolyMul(p, q))[i] = SumTo(Terms(p, q, i + 1), i + 1)
    BY <1>1, <2>1, SeriesIs, ProductCoefficient
  <2>3. Times(SeriesOf(p), SeriesOf(q))[i]
          = SumTo(Products(SeriesOf(p), SeriesOf(q), i), i + 1)
    BY <1>1, TimesIs
  <2>4. \A j \in 1 .. i + 1 :
           Terms(p, q, i + 1)[j] = Products(SeriesOf(p), SeriesOf(q), i)[j]
    <3> TAKE j \in 1 .. i + 1
    <3>1. Products(SeriesOf(p), SeriesOf(q), i)[j] = Mul(SeriesOf(p)[j - 1], SeriesOf(q)[i + 1 - j])
      BY <1>1, ProductsAre
    <3>2. j - 1 \in Nat /\ (j - 1) + 1 = j /\ i + 1 - j \in Nat
          /\ (i + 1 - j) + 1 = i + 1 + 1 - j
      OBVIOUS
    <3>3. SeriesOf(p)[j - 1] = Coefficient(p, j)
      BY <3>2, SeriesIs
    <3>4. SeriesOf(q)[i + 1 - j] = Coefficient(q, i + 1 + 1 - j)
      BY <3>2, SeriesIs
    <3>5. Terms(p, q, i + 1)[j] = Mul(Coefficient(p, j), Coefficient(q, i + 1 + 1 - j))
      BY <2>1, TermsAre
    <3> QED BY <3>1, <3>3, <3>4, <3>5
  <2>5. SumTo(Terms(p, q, i + 1), i + 1) = SumTo(Products(SeriesOf(p), SeriesOf(q), i), i + 1)
    BY <2>1, <2>4, SameSum
  <2> QED BY <2>2, <2>3, <2>5
<1>3. SeriesOf(PolyMul(p, q)) \in [Nat -> Field]
      /\ Times(SeriesOf(p), SeriesOf(q)) \in [Nat -> Field]
  BY <1>1, TimesIs DEF Series
<1> QED BY <1>2, <1>3

\* The first coefficients, as many as are asked for.
LEMMA FirstAgrees ==
  ASSUME NEW p \in Seq(Field), NEW n \in Nat
  PROVE  LET h == SubSeq(p, 1, IF Len(p) <= n THEN Len(p) ELSE n)
         IN  /\ h \in Seq(Field) /\ Len(h) <= n
             /\ Len(p) <= n => Len(h) = Len(p)
             /\ Len(p) > n => Len(h) = n
             /\ \A i \in 1 .. n : Coefficient(h, i) = Coefficient(p, i)
<1> DEFINE m == IF Len(p) <= n THEN Len(p) ELSE n
           h == SubSeq(p, 1, m)
<1>1. Len(p) \in Nat /\ m \in Nat /\ m <= Len(p) /\ m <= n /\ (m < n => m = Len(p))
      /\ (Len(p) <= n => m = Len(p)) /\ (Len(p) > n => m = n)
  BY SeqIsPolynomial
<1> HIDE DEF m
<1>2. /\ h \in Seq(Field) /\ Len(h) = m + 1 - 1
      /\ \A i \in 1 .. m + 1 - 1 : h[i] = p[1 + i - 1]
  BY <1>1, SubSeqOfField
<1>3. Len(h) = m /\ \A i \in 1 .. m : h[i] = p[i]
  BY <1>1, <1>2
<1> HIDE DEF h
<1>4. ASSUME NEW i \in 1 .. n
      PROVE  Coefficient(h, i) = Coefficient(p, i)
  <2>1. CASE i \in 1 .. m
    <3>1. i \in Int /\ i \in 1 .. Len(p)
      BY <1>1, <2>1
    <3>2. Coefficient(h, i) = h[i]
      BY <1>2, <1>3, <2>1, <3>1, CoefficientIs
    <3>3. Coefficient(p, i) = p[i]
      BY <3>1, CoefficientIs
    <3> QED BY <1>3, <2>1, <3>2, <3>3
  <2>2. CASE i \notin 1 .. m
    <3>1. i \in Int /\ i \notin 1 .. Len(p)
      BY <1>1, <2>2
    <3> QED BY <1>2, <1>3, <2>2, <3>1, CoefficientIs
  <2> QED BY <2>1, <2>2
<1>5. Len(h) <= n /\ (Len(p) <= n => Len(h) = Len(p)) /\ (Len(p) > n => Len(h) = n)
  BY <1>1, <1>3
<1> QED BY <1>2, <1>4, <1>5 DEF h, m

\* A step of the iteration on series: 2 a - func a^2, cut.
LEMMA NewtonStepIs ==
  ASSUME NEW func \in Seq(Field), Len(func) # 0,
         NEW a \in Seq(Field), Len(a) # 0, DegreeDefined(a), NEW acc \in Nat
  PROVE  LET A == SeriesOf(a)
         IN  \E next \in Seq(Field) :
               /\ Trimmed(next)
               /\ NewtonStep(func, a, acc)
                    = SubSeq(next, 1, IF Len(next) <= acc THEN Len(next) ELSE acc)
               /\ \A i \in Nat : SeriesOf(next)[i]
                    = Sub(Add(A[i], A[i]), Times(SeriesOf(func), Times(A, A))[i])
<1> DEFINE A == SeriesOf(a)
           s == PolyAdd(a, a)
           aa == PolyMul(a, a)
           t == PolyMul(func, aa)
           next == PolySub(s, t)
<1>1. NewtonStep(func, a, acc) = SubSeq(next, 1, IF Len(next) <= acc THEN Len(next) ELSE acc)
  BY PanicIsNoPolynomial DEF NewtonStep
<1>2. s \in Seq(Field) /\ aa \in Seq(Field)
  BY PolyAddIs, PolyMulIs
<1>3. SeriesOf(aa) = Times(A, A)
  BY ProductSeries
<1>4. ASSUME NEW i \in Nat
      PROVE  Coefficient(s, i + 1) = Add(A[i], A[i])
  <2>1. i + 1 \in Nat \ {0}
    OBVIOUS
  <2>2. A[i] = Coefficient(a, i + 1)
    BY SeriesIs
  <2> QED BY <2>1, <2>2, PolyAddCoefficient
<1> HIDE DEF s, aa
<1>5. t \in Seq(Field) /\ SeriesOf(t) = Times(SeriesOf(func), Times(A, A))
  <2>1. SeriesOf(t) = Times(SeriesOf(func), SeriesOf(aa))
    BY <1>2, ProductSeries
  <2> QED BY <1>2, <1>3, <2>1, PolyMulIs
<1> HIDE DEF t, A
<1>6. /\ next \in Seq(Field) /\ Trimmed(next)
      /\ \A i \in Nat \ {0} : Coefficient(next, i) = Sub(Coefficient(s, i), Coefficient(t, i))
  BY <1>2, <1>5, PolySubIs
<1> HIDE DEF next
<1>7. ASSUME NEW i \in Nat
      PROVE  SeriesOf(next)[i] = Sub(Add(A[i], A[i]), Times(SeriesOf(func), Times(A, A))[i])
  <2>1. i + 1 \in Nat \ {0}
    OBVIOUS
  <2>2. SeriesOf(next)[i] = Coefficient(next, i + 1) /\ SeriesOf(t)[i] = Coefficient(t, i + 1)
    BY <1>5, <1>6, SeriesIs
  <2>3. Coefficient(next, i + 1) = Sub(Coefficient(s, i + 1), Coefficient(t, i + 1))
    BY <1>6, <2>1
  <2> QED BY <1>4, <1>5, <2>2, <2>3
<1> QED BY <1>1, <1>6, <1>7 DEF A

\* One element more doubles the number of subsets.
LEMMA PowersOfTwo ==
  ASSUME NEW k \in Nat
  PROVE  2^k \in Nat /\ 2^k >= 1 /\ 2^(k + 1) = 2 * 2^k
<1> DEFINE S == 1 .. k
           A == SUBSET S
           B == {a \cup {k + 1} : a \in A}
           f == [a \in A |-> a \cup {k + 1}]
<1>0. 2^0 = 1 /\ 2^k \in Nat
  BY PowerOfTwo
<1>1. /\ IsFiniteSet(A) /\ Cardinality(A) = 2^k
      /\ IsFiniteSet(SUBSET (1 .. k + 1)) /\ Cardinality(SUBSET (1 .. k + 1)) = 2^(k + 1)
  <2>1. /\ IsFiniteSet(1 .. k) /\ Cardinality(1 .. k) = k
        /\ IsFiniteSet(1 .. k + 1) /\ Cardinality(1 .. k + 1) = k + 1
    <3>1. 1 \in Int /\ k \in Int /\ k + 1 \in Int /\ k - 1 + 1 = k /\ k + 1 - 1 + 1 = k + 1
      OBVIOUS
    <3> QED BY <3>1, FS_Interval
  <2> QED BY <2>1, FS_SUBSET
<1>2. SUBSET (1 .. k + 1) = A \cup B
  <2>1. ASSUME NEW c \in SUBSET (1 .. k + 1) PROVE c \in A \cup B
    <3>1. CASE k + 1 \in c
      <4>1. c \ {k + 1} \in A /\ c = (c \ {k + 1}) \cup {k + 1}
        BY <3>1
      <4> QED BY <4>1
    <3>2. CASE k + 1 \notin c
      BY <3>2
    <3> QED BY <3>1, <3>2
  <2>2. ASSUME NEW c \in A \cup B PROVE c \in SUBSET (1 .. k + 1)
    <3>1. 1 .. k \subseteq 1 .. k + 1 /\ k + 1 \in 1 .. k + 1
      OBVIOUS
    <3>2. CASE c \in A
      BY <3>1, <3>2
    <3>3. CASE c \in B
      <4>1. PICK a \in A : c = a \cup {k + 1}
        BY <3>3
      <4> QED BY <3>1, <4>1
    <3> QED BY <2>2, <3>2, <3>3
  <2> QED BY <2>1, <2>2
<1>3. A \cap B = {}
  OBVIOUS
<1>4. f \in Bijection(A, B)
  <2>1. f \in [A -> B]
    OBVIOUS
  <2>2. ASSUME NEW a \in A, NEW b \in A, f[a] = f[b] PROVE a = b
    <3>1. a \cup {k + 1} = b \cup {k + 1} /\ k + 1 \notin a /\ k + 1 \notin b
      BY <2>2
    <3> QED BY <3>1
  <2>3. \A c \in B : \E a \in A : f[a] = c
    OBVIOUS
  <2> HIDE DEF f, A, B
  <2> QED BY <2>1, <2>2, <2>3 DEF Bijection, Injection, Surjection, IsInjective
<1> HIDE DEF A, B, f
<1>5. IsFiniteSet(B) /\ Cardinality(B) = 2^k
  <2>1. ExistsBijection(A, B)
    BY <1>4 DEF ExistsBijection
  <2> QED BY <1>1, <2>1, FS_Bijection
<1>6. Cardinality(A \cup B) = Cardinality(A) + Cardinality(B) - Cardinality(A \cap B)
  BY <1>1, <1>5, FS_Union
<1>7. Cardinality(A \cap B) = 0
  BY <1>3, FS_EmptySet
<1>8. {} \in A
  BY DEF A
<1>9. 2^k # 0
  <2>1. A # {}
    BY <1>8
  <2> QED BY <1>1, <2>1, FS_EmptySet
<1> DEFINE x == 2^k  y == 2^(k + 1)
<1>10. x \in Nat /\ x # 0 /\ y = x + x - 0
  BY <1>0, <1>1, <1>2, <1>5, <1>6, <1>7, <1>9
<1> HIDE DEF x, y
<1>11. x >= 1 /\ y = 2 * x
  BY <1>10
<1> QED BY <1>0, <1>11 DEF x, y

\* inverse_mod_xl gives the inverse modulo x^length, unless it panics.
LEMMA InverseIs ==
  ASSUME NEW func \in Seq(Field), Len(func) # 0, func[1] # 0,
         NEW length \in Nat \ {0}, InverseModXl(func, length) # Panic
  PROVE  /\ InverseModXl(func, length) \in Seq(Field)
         /\ \A i \in 0 .. length - 1 :
               Times(SeriesOf(func), SeriesOf(InverseModXl(func, length)))[i] = One[i]
<1>1. PICK g \in [Nat -> Dividends] :
            /\ \A l : InverseModXl(func, l) = g[Log2(l)]
            /\ g[0] = <<Inv(func[1])>>
            /\ \A k \in Nat : g[k + 1] = NewtonStep(func, g[k], 2^(k + 1))
  BY InverseUnfolds
<1> DEFINE D == SeriesOf(func)
           Right(a, n) == /\ a \in Seq(Field)
                          /\ \A i \in 0 .. n - 1 : Times(D, SeriesOf(a))[i] = One[i]
           S == {k \in Nat : g[k] # Panic => Right(g[k], 2^k)}
<1>2. D \in Series /\ D[0] = func[1] /\ func[1] \in Field
  <2>1. 0 \in Nat /\ 0 + 1 = 1 /\ 1 \in Int
    OBVIOUS
  <2>2. 1 \in 1 .. Len(func)
    BY SeqIsPolynomial
  <2>3. func[1] \in Field
    BY <2>2, SeqIsPolynomial
  <2>4. D \in Series /\ D[0] = Coefficient(func, 0 + 1)
    BY <2>1, SeriesIs
  <2>5. Coefficient(func, 1) = func[1]
    BY <2>1, <2>2, CoefficientIs
  <2> QED BY <2>1, <2>3, <2>4, <2>5
<1> HIDE DEF D
<1>3. 0 \in S
  <2> DEFINE c == Inv(func[1])
             a == <<c>>
  <2>1. c \in Field /\ Mul(func[1], c) = 1
    BY <1>2, InverseLaws
  <2> HIDE DEF c
  <2>2. a \in Seq(Field) /\ Len(a) = 1 /\ a[1] = c
    BY <2>1, SingleOfField
  <2>3. g[0] = a
    BY <1>1 DEF c
  <2> HIDE DEF a
  <2>4. SeriesOf(a) \in Series /\ SeriesOf(a)[0] = c
    <3>1. 0 \in Nat /\ 0 + 1 = 1 /\ 1 \in Int /\ 1 \in 1 .. 1
      OBVIOUS
    <3>2. SeriesOf(a)[0] = Coefficient(a, 0 + 1)
      BY <2>2, <3>1, SeriesIs
    <3> QED BY <2>2, <3>1, <3>2, SeriesIs, CoefficientIs
  <2>5. Times(D, SeriesOf(a))[0] = One[0]
    <3>1. Times(D, SeriesOf(a))[0] = Mul(D[0], SeriesOf(a)[0])
      BY <1>2, <2>4, TimesIs
    <3> QED BY <1>2, <2>1, <2>4, <3>1, OneIs
  <2>6. \A i \in 0 .. 2^0 - 1 : i = 0
    <3>1. 2^0 = 1
      OBVIOUS
    <3> QED BY <3>1
  <2> QED BY <2>2, <2>3, <2>5, <2>6
<1>4. ASSUME NEW k \in Nat, k \in S
      PROVE  k + 1 \in S
  <2> SUFFICES ASSUME g[k + 1] # Panic
               PROVE  Right(g[k + 1], 2^(k + 1))
    OBVIOUS
  <2>1. g[k + 1] = NewtonStep(func, g[k], 2^(k + 1))
    BY <1>1
  <2>2. g[k] # Panic /\ DegreeDefined(g[k])
    BY <2>1 DEF NewtonStep
  <2> DEFINE a == g[k]  A == SeriesOf(a)  n == 2^k
  <2>3. a \in Seq(Field) /\ \A i \in 0 .. n - 1 : Times(D, A)[i] = One[i]
    BY <1>4, <2>2
  <2>4. n \in Nat /\ n >= 1 /\ 2^(k + 1) = 2 * n /\ 2^(k + 1) \in Nat
    BY PowersOfTwo
  <2> HIDE DEF a, n
  <2>5. Len(a) # 0
    <3> SUFFICES ASSUME Len(a) = 0 PROVE FALSE
      OBVIOUS
    <3>1. 0 \in 0 .. n - 1 /\ 0 \in Nat /\ 0 + 1 = 1 /\ 1 \in Int /\ 1 \notin 1 .. 0
      BY <2>4
    <3>2. A \in Series /\ A[0] = 0
      <4>1. A \in Series /\ A[0] = Coefficient(a, 0 + 1)
        BY <2>3, <3>1, SeriesIs
      <4>2. Coefficient(a, 1) = 0
        <5>1. 1 \notin 1 .. Len(a)
          BY <3>1
        <5> QED BY <2>3, <3>1, <5>1, CoefficientIs
      <4> QED BY <3>1, <4>1, <4>2
    <3> HIDE DEF A
    <3>3. Times(D, A)[0] = 0
      <4>1. Times(D, A)[0] = Mul(D[0], A[0])
        BY <1>2, <3>2, TimesIs
      <4> QED BY <1>2, <3>2, <4>1, MulLaws
    <3> QED BY <2>3, <3>1, <3>3, OneIs
  <2> DEFINE b == NewtonStep(func, a, 2^(k + 1))
  <2>6. /\ b \in Seq(Field)
        /\ \A i \in 0 .. 2 * n - 1 :
              SeriesOf(b)[i] = Sub(Add(A[i], A[i]), Times(D, Times(A, A))[i])
    <3> DEFINE acc == 2^(k + 1)
    <3>1. PICK next \in Seq(Field) :
               /\ b = SubSeq(next, 1, IF Len(next) <= acc THEN Len(next) ELSE acc)
               /\ \A i \in Nat : SeriesOf(next)[i]
                    = Sub(Add(A[i], A[i]), Times(D, Times(A, A))[i])
      <4>1. DegreeDefined(a) /\ acc \in Nat
        BY <2>2, <2>4 DEF a
      <4> HIDE DEF acc
      <4>2. \E next \in Seq(Field) :
               /\ NewtonStep(func, a, acc)
                    = SubSeq(next, 1, IF Len(next) <= acc THEN Len(next) ELSE acc)
               /\ \A i \in Nat : SeriesOf(next)[i]
                    = Sub(Add(A[i], A[i]), Times(SeriesOf(func), Times(A, A))[i])
        BY <2>3, <2>5, <4>1, NewtonStepIs
      <4> QED BY <4>2 DEF D, acc
    <3> HIDE DEF b, acc
    <3>2. acc \in Nat /\ acc = 2 * n
      BY <2>4 DEF acc
    <3>3. b \in Seq(Field) /\ \A i \in 1 .. acc : Coefficient(b, i) = Coefficient(next, i)
      BY <3>1, <3>2, FirstAgrees
    <3>4. ASSUME NEW i \in 0 .. 2 * n - 1
          PROVE  SeriesOf(b)[i] = SeriesOf(next)[i]
      <4>1. i \in Nat /\ i + 1 \in 1 .. acc
        BY <3>2
      <4> QED BY <3>3, <4>1, SeriesIs
    <3>5. \A i \in 0 .. 2 * n - 1 : i \in Nat
      OBVIOUS
    <3> QED BY <3>1, <3>3, <3>4, <3>5
  <2>7. g[k + 1] = b
    BY <2>1 DEF a
  <2> HIDE DEF b
  <2>8. SeriesOf(b) \in Series /\ A \in Series
    BY <2>3, <2>6, SeriesIs
  <2>9. \A i \in 0 .. 2 * n - 1 : Times(D, SeriesOf(b))[i] = One[i]
    BY <1>2, <2>3, <2>4, <2>6, <2>8, NewtonDoubles
  <2> QED BY <2>4, <2>6, <2>7, <2>9
<1> HIDE DEF S
<1>5. Nat \subseteq S
  BY <1>3, <1>4, Induction
<1>6. Log2(length) \in Nat /\ 2^Log2(length) >= length /\ 2^Log2(length) \in Nat
  <2>1. Log2(length) \in Nat /\ 2^Log2(length) >= length
    BY LogIs
  <2> QED BY <2>1, PowersOfTwo
<1>7. Right(g[Log2(length)], 2^Log2(length))
  BY <1>1, <1>5, <1>6 DEF S
<1>8. \A i \in 0 .. length - 1 : i \in 0 .. 2^Log2(length) - 1
  BY <1>6
<1> QED BY <1>1, <1>7, <1>8 DEF D

-----------------------------------------------------------------------------
(***************************************************************************)
(* Reversed coefficients.                                                  *)
(***************************************************************************)

\* A sum can be taken from its end.
LEMMA SumReversed ==
  ASSUME NEW f, NEW g, NEW n \in Nat,
         \A i \in 1 .. n : f[i] \in Field /\ g[i] = f[n + 1 - i]
  PROVE  SumTo(g, n) = SumTo(f, n)
<1> DEFINE h(k) == [i \in 1 .. k |-> f[n - k + i]]
           S == {k \in 0 .. n : SumTo(g, k) = SumTo(h(k), k)}
<1>1. 0 \in S
  BY SumUnfolds
<1>2. ASSUME NEW k \in 0 .. n - 1, k \in S PROVE k + 1 \in S
  <2>1. k \in Nat /\ n - (k + 1) + 1 \in 1 .. n /\ k + 1 \in 1 .. n
        /\ n + 1 - (k + 1) = n - (k + 1) + 1 /\ 1 \in 1 .. k + 1
    OBVIOUS
  <2>2. SumTo(g, k + 1) = Add(SumTo(g, k), g[k + 1])
    BY SumUnfolds
  <2>3. SumTo(h(k + 1), k + 1) = Add(h(k + 1)[1], SumTo(h(k), k))
    <3>1. \A i \in 1 .. k + 1 : h(k + 1)[i] \in Field
      OBVIOUS
    <3>2. \A i \in 1 .. k : h(k)[i] = h(k + 1)[i + 1]
      <4> TAKE i \in 1 .. k
      <4>1. i + 1 \in 1 .. k + 1 /\ n - (k + 1) + (i + 1) = n - k + i
        OBVIOUS
      <4> QED BY <4>1
    <3> QED BY <2>1, <3>1, <3>2, SumFirst
  <2>4. h(k + 1)[1] = f[n - (k + 1) + 1]
    BY <2>1
  <2>5. g[k + 1] = f[n - (k + 1) + 1] /\ g[k + 1] \in Field
    BY <2>1
  <2>6. SumTo(h(k), k) \in Field
    <3>1. \A i \in 1 .. k : h(k)[i] \in Field
      OBVIOUS
    <3> QED BY <2>1, <3>1, SumInField
  <2>7. SumTo(g, k) = SumTo(h(k), k)
    BY <1>2
  <2>8. Add(g[k + 1], SumTo(h(k), k)) = Add(SumTo(h(k), k), g[k + 1])
    BY <2>5, <2>6, AddCommutes
  <2>9. SumTo(g, k + 1) = SumTo(h(k + 1), k + 1)
    BY <2>2, <2>3, <2>4, <2>5, <2>7, <2>8
  <2> QED BY <2>1, <2>9
<1> HIDE DEF S
<1>3. 0 .. n \subseteq S
  BY <1>1, <1>2, InductionUpTo
<1>4. n \in S
  BY <1>3
<1>5. SumTo(h(n), n) = SumTo(f, n)
  <2>1. \A i \in 1 .. n : h(n)[i] = f[i]
    <3> TAKE i \in 1 .. n
    <3>1. n - n + i = i
      OBVIOUS
    <3> QED BY <3>1
  <2> QED BY <2>1, SameSum
<1> QED BY <1>4, <1>5 DEF S

\* The leading coefficients of a product are those of the product of the
\* reversed series.
LEMMA ReversedProduct ==
  ASSUME NEW m \in Seq(Field), Len(m) # 0, NEW diff \in Nat,
         NEW q \in Seq(Field), Len(q) = diff + 1,
         NEW Q \in Series, \A i \in 0 .. diff : Q[i] = q[diff + 1 - i],
         NEW k \in 0 .. diff
  PROVE  Coefficient(PolyMul(m, q), Len(m) + diff - k) = Times(SeriesOf(Reverse(m)), Q)[k]
<1> DEFINE n == Len(m)
           c == n + diff - k
           D == SeriesOf(Reverse(m))
           f == Terms(m, q, c)
           g == Products(D, Q, k)
           h == [j \in 1 .. n |-> f[n + 1 - j]]
<1>1. n \in Nat \ {0} /\ c \in Nat \ {0} /\ n <= c /\ k \in Nat
  BY SeqIsPolynomial
<1>2. \A j \in 1 .. c :
         /\ f[j] = Mul(Coefficient(m, j), Coefficient(q, c + 1 - j))
         /\ f[j] \in Field
         /\ Coefficient(m, j) = 0 \/ Coefficient(q, c + 1 - j) = 0 => f[j] = 0
  BY <1>1, TermsAre
<1>3. D \in Series /\ \A i \in Nat : D[i] = Coefficient(Reverse(m), i + 1)
  BY ReverseIs, SeriesIs
<1>4. \A j \in 1 .. k + 1 :
         /\ D[j - 1] \in Field /\ Q[k + 1 - j] \in Field
         /\ g[j] = Mul(D[j - 1], Q[k + 1 - j]) /\ g[j] \in Field
  <2>1. D \in Series /\ Q \in Series /\ k \in Nat
    BY <1>1, <1>3
  <2> HIDE DEF D
  <2> QED BY <2>1, ProductsAre
<1>5. Coefficient(PolyMul(m, q), c) = SumTo(f, c)
  BY <1>1, ProductCoefficient
<1>6. Times(D, Q)[k] = SumTo(g, k + 1)
  BY <1>1, <1>3, TimesIs
<1> HIDE DEF f, g, D, c, n
<1>7. SumTo(f, c) = SumTo(f, n)
  <2>1. \A j \in 1 .. n : f[j] \in Field
    BY <1>1, <1>2
  <2>2. \A j \in n + 1 .. c : f[j] = 0
    <3> TAKE j \in n + 1 .. c
    <3>1. j \in 1 .. c /\ j \in Int /\ j \notin 1 .. Len(m)
      BY <1>1 DEF n
    <3>2. Coefficient(m, j) = 0
      BY <3>1, CoefficientIs
    <3> QED BY <1>2, <3>1, <3>2
  <2> QED BY <1>1, <2>1, <2>2, SumExtends
<1>8. \A j \in 1 .. n : h[j] = f[n + 1 - j] /\ h[j] \in Field
  <2> TAKE j \in 1 .. n
  <2>1. n + 1 - j \in 1 .. c
    BY <1>1
  <2> QED BY <1>2, <2>1
<1> HIDE DEF h
<1>9. SumTo(h, n) = SumTo(f, n)
  <2>1. \A j \in 1 .. n : f[j] \in Field
    BY <1>1, <1>2
  <2> QED BY <1>1, <1>8, <2>1, SumReversed
<1>10. ASSUME NEW j \in 1 .. n, j \in 1 .. k + 1
       PROVE  h[j] = g[j]
  <2>1. /\ n + 1 - j \in 1 .. c /\ n + 1 - j \in Int /\ n + 1 - j \in 1 .. Len(m)
        /\ c + 1 - (n + 1 - j) = diff - k + j
        /\ k + 1 - j \in 0 .. diff /\ diff + 1 - (k + 1 - j) = diff - k + j
        /\ diff - k + j \in Int /\ diff - k + j \in 1 .. Len(q)
        /\ j - 1 \in Nat /\ (j - 1) + 1 = j /\ j \in Int /\ j \in 1 .. Len(m)
    BY <1>1, <1>10 DEF n, c
  <2>2. f[n + 1 - j] = Mul(Coefficient(m, n + 1 - j), Coefficient(q, diff - k + j))
    BY <1>2, <2>1
  <2>3. Coefficient(m, n + 1 - j) = m[n + 1 - j]
    BY <2>1, CoefficientIs
  <2>4. Coefficient(q, diff - k + j) = q[diff - k + j]
    BY <2>1, CoefficientIs
  <2>5. D[j - 1] = m[n + 1 - j]
    <3>1. D[j - 1] = Coefficient(Reverse(m), j)
      BY <1>3, <2>1
    <3>2. /\ Reverse(m) \in Seq(Field) /\ Len(Reverse(m)) = Len(m)
          /\ Reverse(m)[j] = m[n + 1 - j]
      BY <2>1, ReverseIs DEF n
    <3>3. Coefficient(Reverse(m), j) = Reverse(m)[j]
      BY <2>1, <3>2, CoefficientIs
    <3> QED BY <3>1, <3>2, <3>3
  <2>6. Q[k + 1 - j] = q[diff - k + j]
    BY <2>1
  <2> QED BY <1>4, <1>8, <1>10, <2>2, <2>3, <2>4, <2>5, <2>6
<1>11. CASE k + 1 <= n
  <2>1. \A j \in k + 2 .. n : h[j] = 0
    <3> TAKE j \in k + 2 .. n
    <3>1. /\ j \in 1 .. n /\ n + 1 - j \in 1 .. c /\ c + 1 - (n + 1 - j) = diff - k + j
          /\ diff - k + j \in Int /\ diff - k + j \notin 1 .. Len(q)
      BY <1>1 DEF n, c
    <3>2. Coefficient(q, diff - k + j) = 0
      BY <3>1, CoefficientIs
    <3>3. f[n + 1 - j] = 0
      BY <1>2, <3>1, <3>2
    <3> QED BY <1>8, <3>1, <3>3
  <2>2. SumTo(h, n) = SumTo(h, k + 1)
    <3>1. k + 1 \in Nat /\ k + 1 + 1 = k + 2 /\ \A j \in 1 .. k + 1 : h[j] \in Field
      BY <1>1, <1>8, <1>11
    <3> QED BY <1>1, <1>11, <2>1, <3>1, SumExtends
  <2>3. SumTo(h, k + 1) = SumTo(g, k + 1)
    <3>1. k + 1 \in Nat /\ \A j \in 1 .. k + 1 : h[j] = g[j]
      BY <1>1, <1>10, <1>11
    <3> QED BY <3>1, SameSum
  <2> QED BY <1>5, <1>6, <1>7, <1>9, <2>2, <2>3 DEF D, c, n
<1>12. CASE ~(k + 1 <= n)
  <2>1. \A j \in n + 1 .. k + 1 : g[j] = 0
    <3> TAKE j \in n + 1 .. k + 1
    <3>1. /\ j \in 1 .. k + 1 /\ j - 1 \in Nat /\ (j - 1) + 1 = j
          /\ j \in Int /\ j \notin 1 .. Len(m)
      BY <1>1 DEF n
    <3>2. Coefficient(Reverse(m), j) = 0
      <4>1. Reverse(m) \in Seq(Field) /\ Len(Reverse(m)) = Len(m)
        BY ReverseIs
      <4> QED BY <3>1, <4>1, CoefficientIs
    <3>3. D[j - 1] = 0
      BY <1>3, <3>1, <3>2
    <3>4. Q[k + 1 - j] \in Field /\ g[j] = Mul(D[j - 1], Q[k + 1 - j])
      BY <1>4, <3>1
    <3>5. Mul(0, Q[k + 1 - j]) = 0
      BY <3>4, MulLaws
    <3> QED BY <3>3, <3>4, <3>5
  <2>2. SumTo(g, k + 1) = SumTo(g, n)
    <3>1. k + 1 \in Nat /\ n <= k + 1 /\ \A j \in 1 .. n : g[j] \in Field
      BY <1>1, <1>4, <1>12
    <3> QED BY <1>1, <2>1, <3>1, SumExtends
  <2>3. SumTo(h, n) = SumTo(g, n)
    <3>1. \A j \in 1 .. n : h[j] = g[j]
      BY <1>1, <1>10, <1>12
    <3> QED BY <1>1, <3>1, SameSum
  <2> QED BY <1>5, <1>6, <1>7, <1>9, <2>2, <2>3 DEF D, c, n
<1> QED BY <1>11, <1>12

\* Polynomials without leading zeros that agree are equal.
LEMMA TrimmedEqual ==
  ASSUME NEW p \in Seq(Field), Trimmed(p), NEW q \in Seq(Field), Trimmed(q), Agree(p, q)
  PROVE  p = q
<1>1. ASSUME NEW a \in Seq(Field), NEW b \in Seq(Field), Trimmed(a), Agree(a, b),
             Len(b) < Len(a)
      PROVE  FALSE
  <2>1. Len(a) \in Nat \ {0} /\ Len(b) \in Nat
    BY <1>1, SeqIsPolynomial
  <2>2. Len(a) \in 1 .. Len(a) /\ Len(a) \notin 1 .. Len(b) /\ Len(a) \in Int
    BY <1>1, <2>1
  <2>3. Coefficient(a, Len(a)) = a[Len(a)] /\ Coefficient(b, Len(a)) = 0
    BY <2>2, CoefficientIs
  <2>4. a # <<>>
    BY <2>1
  <2> QED BY <1>1, <2>1, <2>3, <2>4 DEF Trimmed, Agree
<1>2. Agree(q, p)
  BY DEF Agree
<1>3. Len(p) = Len(q) /\ Len(p) \in Nat
  BY <1>1, <1>2, SeqIsPolynomial
<1>4. \A i \in 1 .. Len(p) : p[i] = q[i]
  <2> TAKE i \in 1 .. Len(p)
  <2>1. i \in Nat \ {0} /\ i \in Int
    BY <1>3
  <2>2. Coefficient(p, i) = p[i] /\ Coefficient(q, i) = q[i]
    BY <1>3, <2>1, CoefficientIs
  <2> QED BY <2>1, <2>2 DEF Agree
<1>5. p \in [1 .. Len(p) -> Field] /\ q \in [1 .. Len(p) -> Field]
  BY <1>3, SeqIsPolynomial DEF Polynomials
<1> QED BY <1>4, <1>5

LEMMA PolyMulCommutes ==
  ASSUME NEW p \in Seq(Field), NEW q \in Seq(Field), Len(p) # 0, Len(q) # 0
  PROVE  Agree(PolyMul(p, q), PolyMul(q, p))
<1>1. SeriesOf(PolyMul(p, q)) = SeriesOf(PolyMul(q, p))
  BY SeriesIs, ProductSeries, TimesCommutes
<1>2. ASSUME NEW i \in Nat \ {0}
      PROVE  Coefficient(PolyMul(p, q), i) = Coefficient(PolyMul(q, p), i)
  <2>1. i - 1 \in Nat /\ (i - 1) + 1 = i
    OBVIOUS
  <2>2. /\ SeriesOf(PolyMul(p, q))[i - 1] = Coefficient(PolyMul(p, q), (i - 1) + 1)
        /\ SeriesOf(PolyMul(q, p))[i - 1] = Coefficient(PolyMul(q, p), (i - 1) + 1)
    BY <2>1, SeriesIs, PolyMulIs
  <2> QED BY <1>1, <2>1, <2>2
<1> QED BY <1>2 DEF Agree

\* fast_divide_monic (subproductdomain/src/lib.rs) is Euclid's division by a
\* monic divisor, unless it panics: the product of quotient and divisor and the
\* remainder add up to the dividend, and the remainder is shorter.
THEOREM DivisionIsEuclids ==
  ASSUME NEW func \in Seq(Field), DegreeDefined(func), NEW divisor, Monic(divisor),
         FastDivideMonic(func, divisor).remainder # Panic
  PROVE  LET d == FastDivideMonic(func, divisor)
         IN  /\ d.quotient \in Seq(Field) /\ d.remainder \in Seq(Field)
             /\ Agree(func, PolyAdd(PolyMul(d.quotient, divisor), d.remainder))
             /\ Len(d.remainder) < Len(divisor)
<1> DEFINE n == Len(func)
           m == Len(divisor)
           r == FastDivideMonic(func, divisor).remainder
           q == FastDivideMonic(func, divisor).quotient
<1>1. /\ n \in Nat /\ m \in Nat \ {0} /\ m # 0 /\ divisor \in Seq(Field) /\ divisor[m] = 1
  BY SeqIsPolynomial DEF Monic
<1>2. ASSUME q \in Seq(Field), Len(q) # 0, r \in Seq(Field),
             \A i \in Nat \ {0} :
               Coefficient(r, i) = Sub(Coefficient(func, i), Coefficient(PolyMul(divisor, q), i))
      PROVE  Agree(func, PolyAdd(PolyMul(q, divisor), r))
  <2> HIDE DEF q, r
  <2>1. PolyMul(q, divisor) \in Seq(Field) /\ PolyMul(divisor, q) \in Seq(Field)
    BY <1>1, <1>2, PolyMulIs
  <2>2. Agree(PolyMul(divisor, q), PolyMul(q, divisor))
    BY <1>1, <1>2, PolyMulCommutes
  <2>3. ASSUME NEW i \in Nat \ {0}
        PROVE  Coefficient(func, i) = Coefficient(PolyAdd(PolyMul(q, divisor), r), i)
    <3> DEFINE x == Coefficient(func, i)  y == Coefficient(PolyMul(q, divisor), i)
    <3>1. Coefficient(PolyAdd(PolyMul(q, divisor), r), i) = Add(y, Coefficient(r, i))
      BY <1>2, <2>1, PolyAddCoefficient
    <3>2. Coefficient(r, i) = Sub(x, y)
      BY <1>2, <2>2 DEF Agree
    <3>3. i \in Int
      OBVIOUS
    <3>4. x \in Field /\ y \in Field
      BY <2>1, <3>3, CoefficientIs
    <3> QED BY <3>1, <3>2, <3>4, Differences
  <2> QED BY <2>3 DEF Agree
<1>3. CASE n < m
  <2>1. q = <<0>> /\ r = func
    BY <1>3 DEF FastDivideMonic
  <2> HIDE DEF q, r
  <2>2. q \in Seq(Field) /\ Len(q) = 1 /\ q[1] = 0
    BY <2>1, Closed, SingleOfField
  <2>3. \A i \in Int : Coefficient(q, i) = 0
    BY <2>2, CoefficientIs
  <2>4. ASSUME NEW i \in Nat \ {0}
        PROVE  Coefficient(r, i) = Sub(Coefficient(func, i), Coefficient(PolyMul(divisor, q), i))
    <3>1. \A j \in 1 .. i : Terms(divisor, q, i)[j] = 0
      <4> TAKE j \in 1 .. i
      <4>1. i + 1 - j \in Int /\ i \in Nat
        OBVIOUS
      <4>2. Coefficient(q, i + 1 - j) = 0
        BY <2>3, <4>1
      <4> QED BY <1>1, <2>2, <4>1, <4>2, TermsAre
    <3>2. Coefficient(PolyMul(divisor, q), i) = 0
      BY <1>1, <2>2, <3>1, ProductCoefficient, SumOfZeros
    <3>3. Coefficient(func, i) \in Field
      <4>1. i \in Int
        OBVIOUS
      <4> QED BY <4>1, CoefficientIs
    <3> QED BY <2>1, <3>2, <3>3, SubLaws
  <2>5. r \in Seq(Field) /\ Len(r) < m /\ Len(q) # 0
    BY <1>3, <2>1, <2>2
  <2> QED BY <1>2, <2>2, <2>4, <2>5 DEF q, r
<1>4. CASE n >= m
  <2> DEFINE diff == n - m
             rd == Reverse(divisor)
             inverse == InverseModXl(rd, diff + 1)
             rf == Reverse(func)
             w == PolyMul(rf, inverse)
             c == PolyMul(divisor, q)
  <2>1. diff \in Nat /\ n = m + diff /\ ~(n < m) /\ n # 0
    BY <1>1, <1>4
  <2>2. /\ inverse # Panic
        /\ q = QuotientBy(func, inverse, diff)
        /\ q \in Seq(Field) /\ Len(q) = diff + 1
        /\ r = PolySub(func, c)
    <3>1. /\ inverse = Panic => r = Panic
          /\ inverse # Panic =>
                LET p == QuotientBy(func, inverse, diff)
                IN  p \in Seq(Field) /\ Len(p) = diff + 1 /\ r = PolySub(func, PolyMul(divisor, p))
      BY <1>1, <1>4, DivisionShape DEF Subtract
    <3>2. inverse # Panic => q = QuotientBy(func, inverse, diff)
      BY <2>1 DEF FastDivideMonic, QuotientBy
    <3> QED BY <3>1, <3>2
  <2> HIDE DEF q, r
  <2>3. /\ rd \in Seq(Field) /\ Len(rd) # 0 /\ rd[1] # 0
        /\ rf \in Seq(Field) /\ Len(rf) = n /\ \A i \in 1 .. n : rf[i] = func[n + 1 - i]
    <3>1. rd \in Seq(Field) /\ Len(rd) = m /\ \A i \in 1 .. m : rd[i] = divisor[m + 1 - i]
      BY <1>1, ReverseIs
    <3>2. 1 \in 1 .. m /\ m + 1 - 1 = m
      BY <1>1
    <3>3. rd[1] = 1
      BY <1>1, <3>1, <3>2
    <3> QED BY <1>1, <3>1, <3>3, ReverseIs
  <2> HIDE DEF rd, rf
  <2>4. /\ inverse \in Seq(Field)
        /\ \A i \in 0 .. diff : Times(SeriesOf(rd), SeriesOf(inverse))[i] = One[i]
    <3>1. diff + 1 \in Nat \ {0} /\ diff + 1 - 1 = diff
      BY <2>1
    <3> QED BY <2>2, <2>3, <3>1, InverseIs
  <2> HIDE DEF inverse
  <2> DEFINE F == SeriesOf(rf)  D == SeriesOf(rd)  A == SeriesOf(inverse)  Q == SeriesOf(w)
  <2>5. w \in Seq(Field) /\ Q = Times(F, A)
    <3>1. Len(rf) # 0
      BY <2>1, <2>3
    <3> QED BY <2>3, <2>4, <3>1, PolyMulIs, ProductSeries
  <2> HIDE DEF w
  <2>6. F \in Series /\ D \in Series /\ A \in Series /\ Q \in Series
    BY <2>3, <2>4, <2>5, SeriesIs
  <2>7. \A i \in 0 .. diff : Q[i] = q[diff + 1 - i]
    <3> DEFINE z == Resize(w, diff + 1)
    <3>1. diff + 1 \in Nat
      BY <2>1
    <3>2. q = Rev(z, diff)
      BY <2>2 DEF QuotientBy, w, rf
    <3> HIDE DEF diff
    <3>3. /\ z \in Seq(Field) /\ Len(z) = diff + 1
          /\ \A i \in 1 .. diff + 1 : z[i] = Coefficient(w, i)
      BY <2>5, <3>1, ResizeType
    <3> HIDE DEF z
    <3>4. \A i \in 1 .. diff + 1 : q[i] = Coefficient(z, diff + 2 - i)
      BY <2>1, <3>2, <3>3, RevIs
    <3> TAKE i \in 0 .. diff
    <3>5. /\ i \in Nat /\ diff + 1 - i \in 1 .. diff + 1 /\ diff + 2 - (diff + 1 - i) = i + 1
          /\ i + 1 \in 1 .. diff + 1 /\ i + 1 \in Int
      BY <2>1
    <3>6. q[diff + 1 - i] = Coefficient(z, i + 1)
      BY <3>4, <3>5
    <3>7. Coefficient(z, i + 1) = z[i + 1]
      BY <3>3, <3>5, CoefficientIs
    <3>8. Q[i] = Coefficient(w, i + 1)
      BY <2>5, <3>5, SeriesIs
    <3> QED BY <3>3, <3>5, <3>6, <3>7, <3>8
  <2>8. ASSUME NEW k \in 0 .. diff
        PROVE  Times(D, Q)[k] = F[k]
    <3> HIDE DEF F, D, A, Q
    <3>1. Times(D, Q) = Times(F, Times(D, A))
      <4>1. Times(D, Times(F, A)) = Times(Times(D, F), A)
        BY <2>6, TimesAssociates
      <4>2. Times(D, F) = Times(F, D)
        BY <2>6, TimesCommutes
      <4>3. Times(Times(F, D), A) = Times(F, Times(D, A))
        BY <2>6, TimesAssociates
      <4> QED BY <2>5, <4>1, <4>2, <4>3
    <3>2. k \in Nat /\ Times(D, A) \in Series /\ \A j \in 0 .. k : Times(D, A)[j] = One[j]
      <4>1. \A j \in 0 .. k : j \in 0 .. diff
        BY <2>1
      <4> QED BY <2>1, <2>4, <2>6, <4>1, TimesIs DEF D, A
    <3>3. Times(F, Times(D, A))[k] = Times(F, One)[k]
      BY <2>6, <3>2, OneIs, TimesAgree
    <3>4. Times(F, One) = Times(One, F) /\ Times(One, F)[k] = F[k]
      BY <2>6, <3>2, OneIs, TimesCommutes, TimesOne
    <3> QED BY <3>1, <3>3, <3>4
  <2>9. ASSUME NEW i \in m .. n
        PROVE  Coefficient(c, i) = Coefficient(func, i)
    <3> DEFINE k == n - i
    <3>1. /\ k \in 0 .. diff /\ m + diff - k = i /\ k \in Nat /\ k + 1 \in 1 .. n
          /\ n + 1 - (k + 1) = i /\ k + 1 \in Int /\ i \in Int /\ i \in 1 .. n
      BY <1>1, <2>1
    <3> HIDE DEF k
    <3>2. Coefficient(c, i) = Times(D, Q)[k]
      <4>1. Coefficient(c, m + diff - k) = Times(SeriesOf(Reverse(divisor)), Q)[k]
        <5> HIDE DEF diff, Q
        <5>1. /\ divisor \in Seq(Field) /\ Len(divisor) # 0 /\ diff \in Nat
              /\ q \in Seq(Field) /\ Len(q) = diff + 1 /\ k \in 0 .. diff
              /\ Q \in Series /\ \A j \in 0 .. diff : Q[j] = q[diff + 1 - j]
          BY <1>1, <2>1, <2>2, <2>6, <2>7, <3>1
        <5> HIDE DEF m, c
        <5>2. Coefficient(PolyMul(divisor, q), Len(divisor) + diff - k)
                = Times(SeriesOf(Reverse(divisor)), Q)[k]
          BY <5>1, ReversedProduct
        <5> QED BY <5>2 DEF m, c
      <4> QED BY <3>1, <4>1 DEF rd
    <3>3. F[k] = Coefficient(rf, k + 1)
      BY <2>3, <3>1, SeriesIs
    <3>4. Coefficient(rf, k + 1) = func[i]
      BY <2>3, <3>1, CoefficientIs
    <3>5. Coefficient(func, i) = func[i]
      BY <3>1, CoefficientIs
    <3> QED BY <2>8, <3>1, <3>2, <3>3, <3>4, <3>5
  <2>10. c \in Seq(Field) /\ Len(c) <= n /\ Len(c) \in Nat
    <3>1. Len(q) = n - m + 1 /\ Len(q) \in Nat
      BY <1>1, <2>1, <2>2
    <3>2. c \in Seq(Field) /\ Len(c) <= m + Len(q) - 1
      BY <1>1, <2>2, <3>1, PolyMulIs
    <3> HIDE DEF c
    <3>3. Len(c) \in Nat
      BY <3>2, SeqIsPolynomial
    <3> QED BY <1>1, <3>1, <3>2, <3>3
  <2>11. /\ r \in Seq(Field) /\ Trimmed(r) /\ Len(r) \in Nat /\ Len(r) <= n
         /\ \A i \in Nat \ {0} : Coefficient(r, i) = Sub(Coefficient(func, i), Coefficient(c, i))
    <3>1. /\ r \in Seq(Field) /\ Trimmed(r) /\ Len(r) <= Longer(func, c)
          /\ \A i \in Nat \ {0} : Coefficient(r, i) = Sub(Coefficient(func, i), Coefficient(c, i))
      BY <2>2, <2>10, PolySubIs
    <3>2. Longer(func, c) = n
      BY <1>1, <2>10 DEF Longer
    <3> QED BY <3>1, <3>2, SeqIsPolynomial
  <2>12. Len(r) < m
    <3> SUFFICES ASSUME Len(r) >= m PROVE FALSE
      BY <1>1, <2>11
    <3>1. Len(r) \in m .. n /\ Len(r) \in 1 .. Len(r) /\ Len(r) \in Int /\ Len(r) \in Nat \ {0}
      BY <1>1, <2>11
    <3>2. Coefficient(r, Len(r)) = r[Len(r)] /\ Coefficient(func, Len(r)) \in Field
      BY <2>11, <3>1, CoefficientIs
    <3>3. Coefficient(r, Len(r)) = 0
      <4>1. Coefficient(r, Len(r)) = Sub(Coefficient(func, Len(r)), Coefficient(func, Len(r)))
        BY <2>9, <2>11, <3>1
      <4> QED BY <3>2, <4>1, SubLaws
    <3>4. r # <<>>
      BY <3>1
    <3> QED BY <2>11, <3>2, <3>3, <3>4 DEF Trimmed
  <2>13. Len(q) # 0
    BY <2>1, <2>2
  <2> QED BY <1>2, <2>2, <2>11, <2>12, <2>13 DEF q, r
<1> QED BY <1>1, <1>3, <1>4

-----------------------------------------------------------------------------
(***************************************************************************)
(* Where the Newton iteration fails: up to three steps.                    *)
(***************************************************************************)

\* Equivalent by the values of 2^k for k up to 2.
LEMMA SmallLogs ==
  Log2(1) = 0 /\ Log2(2) = 1 /\ Log2(3) = 2 /\ Log2(4) = 2
<1>0. 2^0 = 1 /\ 2^1 = 2 /\ 2^2 = 4
  OBVIOUS
<1>1. ASSUME NEW n \in {1, 2, 3, 4}
      PROVE  /\ Log2(n) \in 0 .. n /\ 2^Log2(n) >= n
             /\ \A j \in 0 .. Log2(n) - 1 : 2^j < n
  <2>1. n \in Nat \ {0}
    OBVIOUS
  <2> QED BY <2>1, LogIs
<1>2. ASSUME NEW n \in {1, 2, 3, 4}, NEW j \in {0, 1, 2}, 2^j >= n
      PROVE  Log2(n) <= j
  <2> SUFFICES ASSUME Log2(n) > j PROVE FALSE
    BY <1>1
  <2>1. j \in 0 .. Log2(n) - 1
    BY <1>1, <1>2
  <2>2. 2^j < n
    BY <1>1, <2>1
  <2>3. 2^j \in Nat
    BY PowerOfTwo
  <2> QED BY <1>2, <2>2, <2>3
<1>3. ASSUME NEW n \in {1, 2, 3, 4}, NEW j \in {0, 1, 2}, 2^j < n
      PROVE  Log2(n) # j
  <2> SUFFICES ASSUME Log2(n) = j PROVE FALSE
    OBVIOUS
  <2>1. 2^j >= n
    BY <1>1
  <2>2. 2^j \in Nat
    BY PowerOfTwo
  <2> QED BY <1>3, <2>1, <2>2
<1>4. Log2(1) = 0
  <2>1. 2^0 >= 1
    BY <1>0
  <2>2. Log2(1) <= 0
    BY <1>2, <2>1
  <2> QED BY <1>1, <2>2
<1>5. Log2(2) = 1
  <2>1. 2^1 >= 2 /\ 2^0 < 2
    BY <1>0
  <2>2. Log2(2) <= 1 /\ Log2(2) # 0
    BY <1>2, <1>3, <2>1
  <2> QED BY <1>1, <2>2
<1>6. ASSUME NEW n \in {3, 4} PROVE Log2(n) = 2
  <2>1. 2^2 >= n /\ 2^1 < n /\ 2^0 < n
    BY <1>0
  <2>2. Log2(n) <= 2 /\ Log2(n) # 0 /\ Log2(n) # 1
    BY <1>2, <1>3, <2>1
  <2> QED BY <1>1, <2>2
<1> QED BY <1>4, <1>5, <1>6

\* The inverse of a series with constant term 1 modulo at most x^4: the first
\* step never fails, and the second one does when cutting the result of the
\* first leaves a zero in front.
LEMMA ShortInverse ==
  ASSUME NEW d \in Seq(Field), Len(d) # 0, d[1] = 1
  PROVE  /\ InverseModXl(d, 1) # Panic
         /\ InverseModXl(d, 2) # Panic
         /\ \A length \in {3, 4} :
               InverseModXl(d, length) = Panic
                 <=> /\ Coefficient(d, 2) = 0
                     /\ \E i \in Nat : i >= 3 /\ Coefficient(d, i) # 0
<1>0. d[1] # 0
  OBVIOUS
<1>1. PICK g \in [Nat -> Dividends] :
            /\ \A length : InverseModXl(d, length) = g[Log2(length)]
            /\ g[0] = <<Inv(d[1])>>
            /\ \A k \in Nat : g[k + 1] = NewtonStep(d, g[k], 2^(k + 1))
  BY <1>0, InverseUnfolds
<1>2. 2^1 = 2 /\ 2^2 = 4
  OBVIOUS
<1> DEFINE a == <<1>>
           h == NewtonStep(d, a, 2)
<1>3. g[0] = a /\ g[1] = h /\ g[2] = NewtonStep(d, h, 4)
  <2>1. Inv(1) \in Field /\ Mul(1, Inv(1)) = 1 /\ Mul(1, Inv(1)) = Inv(1)
    BY Closed, InverseLaws, MulLaws, ModulusIsNat
  <2>2. g[0] = a
    BY <1>1, <2>1
  <2> HIDE DEF a
  <2>3. g[0 + 1] = NewtonStep(d, g[0], 2^(0 + 1)) /\ g[1 + 1] = NewtonStep(d, g[1], 2^(1 + 1))
    BY <1>1
  <2> QED BY <1>2, <2>2, <2>3
<1>4. a \in Seq(Field) /\ Len(a) = 1 /\ a[1] = 1 /\ a # Panic /\ DegreeDefined(a)
  <2>1. a \in Seq(Field) /\ Len(a) = 1 /\ a[1] = 1
    BY Closed
  <2> HIDE DEF a
  <2>2. DegreeDefined(a)
    BY <2>1 DEF DegreeDefined
  <2> QED BY <2>1, <2>2, PanicIsNoPolynomial
<1> HIDE DEF a
<1> DEFINE A == SeriesOf(a)
           D == SeriesOf(d)
<1>5. /\ A = One /\ D \in Series /\ D[0] = 1
      /\ D[1] = Coefficient(d, 2) /\ \A i \in Nat : D[i] = Coefficient(d, i + 1)
  <2>1. A \in Series /\ D \in Series /\ One \in Series
    BY <1>4, SeriesIs, OneIs
  <2>2. ASSUME NEW i \in Nat PROVE A[i] = One[i]
    <3>1. A[i] = Coefficient(a, i + 1) /\ i + 1 \in Int
      BY <1>4, SeriesIs
    <3>2. CASE i = 0
      <4>1. i + 1 \in 1 .. Len(a) /\ i + 1 = 1
        BY <1>4, <3>2
      <4> QED BY <1>4, <3>1, <3>2, <4>1, CoefficientIs, OneIs
    <3>3. CASE i # 0
      <4>1. i + 1 \notin 1 .. Len(a) /\ i \in Nat \ {0}
        BY <1>4, <3>3
      <4> QED BY <1>4, <3>1, <4>1, CoefficientIs, OneIs
    <3> QED BY <3>2, <3>3
  <2>3. A = One
    BY <2>1, <2>2 DEF Series
  <2>4. \A i \in Nat : D[i] = Coefficient(d, i + 1)
    BY SeriesIs
  <2>5. 0 \in Nat /\ 1 \in Nat /\ 0 + 1 = 1 /\ 1 + 1 = 2 /\ 1 \in Int
    OBVIOUS
  <2>6. Coefficient(d, 1) = 1
    <3>1. 1 \in 1 .. Len(d)
      BY SeqIsPolynomial
    <3> QED BY <2>5, <3>1, CoefficientIs
  <2>7. D[0] = Coefficient(d, 0 + 1) /\ D[1] = Coefficient(d, 1 + 1)
    BY <2>4, <2>5
  <2> QED BY <2>1, <2>3, <2>4, <2>5, <2>6, <2>7
<1>6. PICK next \in Seq(Field) :
         /\ Trimmed(next)
         /\ h = SubSeq(next, 1, IF Len(next) <= 2 THEN Len(next) ELSE 2)
         /\ \A i \in Nat : SeriesOf(next)[i] = Sub(Add(One[i], One[i]), Times(D, Times(One, One))[i])
  <2>1. \E next \in Seq(Field) :
         /\ Trimmed(next)
         /\ h = SubSeq(next, 1, IF Len(next) <= 2 THEN Len(next) ELSE 2)
         /\ \A i \in Nat : SeriesOf(next)[i] = Sub(Add(A[i], A[i]), Times(D, Times(A, A))[i])
    <3>1. 2 \in Nat /\ Len(a) # 0
      BY <1>4
    <3> QED BY <1>4, <3>1, NewtonStepIs
  <2> HIDE DEF A, D, h
  <2> QED BY <1>5, <2>1
<1> HIDE DEF h, A, D
<1>7. /\ Coefficient(next, 1) = 1
      /\ \A i \in Nat : i >= 2 => Coefficient(next, i) = Neg(Coefficient(d, i))
  <2>1. Times(D, Times(One, One)) = D
    <3>1. Times(One, One) = One
      <4>1. \A i \in Nat : Times(One, One)[i] = One[i]
        BY OneIs, TimesOne
      <4>2. Times(One, One) \in [Nat -> Field] /\ One \in [Nat -> Field]
        BY OneIs, TimesIs DEF Series
      <4> QED BY <4>1, <4>2
    <3>2. Times(D, One) = Times(One, D)
      BY <1>5, OneIs, TimesCommutes
    <3>3. \A i \in Nat : Times(One, D)[i] = D[i]
      BY <1>5, TimesOne
    <3>4. Times(One, D) \in [Nat -> Field] /\ D \in [Nat -> Field]
      BY <1>5, OneIs, TimesIs DEF Series
    <3> QED BY <3>1, <3>2, <3>3, <3>4
  <2>2. ASSUME NEW i \in Nat
        PROVE  Coefficient(next, i + 1) = Sub(Add(One[i], One[i]), D[i])
    BY <1>6, <2>1, SeriesIs
  <2>3. Coefficient(next, 1) = 1
    <3>1. 0 \in Nat /\ 0 + 1 = 1 /\ 1 \in Field
      BY Closed
    <3>2. Coefficient(next, 0 + 1) = Sub(Add(1, 1), 1)
      BY <1>5, <2>2, <3>1, OneIs
    <3> QED BY <3>1, <3>2, SubLaws
  <2>4. ASSUME NEW i \in Nat, i >= 2
        PROVE  Coefficient(next, i) = Neg(Coefficient(d, i))
    <3>1. i - 1 \in Nat \ {0} /\ (i - 1) + 1 = i /\ 0 \in Field /\ i \in Int
      BY <2>4, Closed
    <3>2. Coefficient(next, i) = Sub(Add(0, 0), D[i - 1]) /\ D[i - 1] = Coefficient(d, i)
      BY <1>5, <2>2, <3>1, OneIs
    <3>3. Coefficient(d, i) \in Field
      BY <3>1, CoefficientIs
    <3>4. Add(0, 0) = 0 /\ Neg(Coefficient(d, i)) = Sub(0, Coefficient(d, i))
      BY <3>1, <3>3, AddLaws, SubLaws
    <3> QED BY <3>2, <3>4
  <2> QED BY <2>3, <2>4
<1>8. \A x \in Field : Neg(x) \in Field /\ (Neg(x) = 0 <=> x = 0)
  <2> TAKE x \in Field
  <2>1. 0 \in Field /\ Neg(x) = Sub(0, x) /\ Neg(x) \in Field
    BY Closed, SubLaws
  <2>2. Sub(0, x) = 0 => 0 = x
    BY <2>1, SubLaws
  <2>3. Sub(0, 0) = 0
    BY <2>1, SubLaws
  <2> QED BY <2>1, <2>2, <2>3
<1>9. /\ h \in Seq(Field) /\ Len(h) \in Nat /\ Len(h) <= 2 /\ Len(next) \in Nat
      /\ Len(next) <= 2 => Len(h) = Len(next)
      /\ Len(next) > 2 => Len(h) = 2
      /\ Coefficient(h, 1) = 1
      /\ Coefficient(h, 2) = Neg(Coefficient(d, 2))
  <2>1. 2 \in Nat /\ 1 \in 1 .. 2 /\ 2 \in 1 .. 2 /\ 2 >= 2
    OBVIOUS
  <2>2. /\ h \in Seq(Field) /\ Len(h) <= 2
        /\ Len(next) <= 2 => Len(h) = Len(next)
        /\ Len(next) > 2 => Len(h) = 2
        /\ \A i \in 1 .. 2 : Coefficient(h, i) = Coefficient(next, i)
    BY <1>6, <2>1, FirstAgrees
  <2> QED BY <1>7, <2>1, <2>2, SeqIsPolynomial
<1>10. Len(h) \in {1, 2} /\ h[1] = 1
  <2>1. Len(h) # 0
    <3> SUFFICES ASSUME Len(h) = 0 PROVE FALSE
      OBVIOUS
    <3>1. 1 \in Int /\ 1 \notin 1 .. Len(h)
      OBVIOUS
    <3>2. Coefficient(h, 1) = 0
      BY <1>9, <3>1, CoefficientIs
    <3> QED BY <1>9, <3>2
  <2>2. Len(h) \in {1, 2}
    <3> DEFINE l == Len(h)
    <3>1. l \in Nat /\ l <= 2 /\ l # 0
      BY <1>9, <2>1
    <3> HIDE DEF l
    <3>2. l \in {1, 2}
      BY <3>1
    <3> QED BY <3>2 DEF l
  <2>3. 1 \in Int /\ 1 \in 1 .. Len(h)
    <3> DEFINE l == Len(h)
    <3>1. l \in {1, 2}
      BY <2>2
    <3> HIDE DEF l
    <3>2. 1 \in Int /\ 1 \in 1 .. l
      BY <3>1
    <3> QED BY <3>2 DEF l
  <2>4. Coefficient(h, 1) = h[1]
    BY <1>9, <2>3, CoefficientIs
  <2> QED BY <1>9, <2>2, <2>4
<1>11. DegreeDefined(h) <=> h[Len(h)] # 0
  <2>1. 1 \in DOMAIN h /\ h[1] # 0
    <3>1. DOMAIN h = 1 .. Len(h)
      BY <1>9, SeqIsPolynomial
    <3> QED BY <1>10, <3>1
  <2>2. ~IsZero(h)
    BY <2>1 DEF IsZero
  <2> QED BY <2>2 DEF DegreeDefined
<1> DEFINE Fails == /\ Coefficient(d, 2) = 0
                    /\ \E i \in Nat : i >= 3 /\ Coefficient(d, i) # 0
<1>12. DegreeDefined(h) <=> ~Fails
  <2>0. \A i \in Nat : Coefficient(d, i) \in Field
    <3> TAKE i \in Nat
    <3>1. i \in Int
      OBVIOUS
    <3> QED BY <3>1, CoefficientIs
  <2>1. CASE Coefficient(d, 2) # 0
    <3>1. Coefficient(h, 2) # 0
      BY <1>8, <1>9, <2>0, <2>1
    <3>2. Len(h) = 2
      <4>1. 2 \in Int /\ 2 \notin 1 .. 1
        OBVIOUS
      <4>2. Len(h) = 1 => Coefficient(h, 2) = 0
        BY <1>9, <4>1, CoefficientIs
      <4> QED BY <1>10, <3>1, <4>2
    <3>3. Coefficient(h, 2) = h[2]
      <4>1. 2 \in Int /\ 2 \in 1 .. Len(h)
        BY <3>2
      <4> QED BY <1>9, <4>1, CoefficientIs
    <3> QED BY <1>11, <2>1, <3>1, <3>2, <3>3
  <2>2. CASE Coefficient(d, 2) = 0 /\ \E i \in Nat : i >= 3 /\ Coefficient(d, i) # 0
    <3>1. PICK i \in Nat : i >= 3 /\ Coefficient(d, i) # 0
      BY <2>2
    <3>2. Coefficient(next, i) # 0
      <4>1. i >= 2
        BY <3>1
      <4> QED BY <1>7, <1>8, <2>0, <3>1, <4>1
    <3>3. Len(next) > 2
      <4> SUFFICES ASSUME Len(next) <= 2 PROVE FALSE
        BY <1>9
      <4>1. i \in Int /\ i \notin 1 .. Len(next)
        BY <1>9, <3>1
      <4> QED BY <3>2, <4>1, CoefficientIs
    <3>4. Len(h) = 2 /\ Coefficient(h, 2) = 0
      BY <1>8, <1>9, <2>0, <2>2, <3>3
    <3>5. h[2] = 0
      <4>1. 2 \in Int /\ 2 \in 1 .. Len(h)
        BY <3>4
      <4> QED BY <1>9, <3>4, <4>1, CoefficientIs
    <3> QED BY <1>11, <2>2, <3>4, <3>5
  <2>3. CASE Coefficient(d, 2) = 0 /\ \A i \in Nat : i >= 3 => Coefficient(d, i) = 0
    <3>1. \A i \in Nat : i >= 2 => Coefficient(next, i) = 0
      <4> TAKE i \in Nat
      <4> HAVE i >= 2
      <4>1. i = 2 \/ i >= 3
        OBVIOUS
      <4>2. Coefficient(d, i) = 0
        BY <2>3, <4>1
      <4> QED BY <1>7, <1>8, <2>0, <4>2
    <3>2. Len(next) <= 1
      <4> SUFFICES ASSUME Len(next) > 1 PROVE FALSE
        BY <1>9
      <4>1. Len(next) \in Nat /\ Len(next) >= 2 /\ Len(next) \in Int /\ Len(next) \in 1 .. Len(next)
        BY <1>9
      <4>2. Coefficient(next, Len(next)) = next[Len(next)]
        BY <4>1, CoefficientIs
      <4>3. next # <<>>
        BY <4>1
      <4> QED BY <1>6, <3>1, <4>1, <4>2, <4>3 DEF Trimmed
    <3>3. Len(h) = 1
      <4> DEFINE l == Len(h)  n == Len(next)
      <4>1. l \in {1, 2} /\ n \in Nat /\ n <= 1 /\ (n <= 2 => l = n)
        BY <1>9, <1>10, <3>2
      <4> HIDE DEF l, n
      <4>2. l = 1
        BY <4>1
      <4> QED BY <4>2 DEF l
    <3>4. h[Len(h)] = 1
      BY <1>10, <3>3
    <3> QED BY <1>11, <2>3, <3>4
  <2> QED BY <2>1, <2>2, <2>3
<1>13. NewtonStep(d, h, 4) = Panic <=> ~DegreeDefined(h)
  <2>1. h # Panic /\ h \in Dividends /\ 4 \in Nat
    BY <1>9, PanicIsNoPolynomial DEF Dividends
  <2>2. DegreeDefined(h) => NewtonStep(d, h, 4) # Panic
    BY <2>1, NewtonStepType, PanicIsNoPolynomial
  <2>3. ~DegreeDefined(h) => NewtonStep(d, h, 4) = Panic
    BY DEF NewtonStep
  <2> QED BY <2>2, <2>3
<1>14. InverseModXl(d, 1) = a /\ InverseModXl(d, 2) = h
  BY <1>1, <1>3, SmallLogs
<1>15. \A length \in {3, 4} : InverseModXl(d, length) = NewtonStep(d, h, 4)
  <2> TAKE length \in {3, 4}
  <2>1. Log2(length) = 2
    BY SmallLogs
  <2> QED BY <1>1, <1>3, <2>1
<1>16. a # Panic /\ h # Panic
  BY <1>4, <1>9, PanicIsNoPolynomial
<1> QED BY <1>12, <1>13, <1>14, <1>15, <1>16

\* A divisor that is at most one coefficient shorter makes no second step.
LEMMA SmallDivision ==
  ASSUME NEW func \in Seq(Field), DegreeDefined(func), NEW divisor, Monic(divisor),
         Len(divisor) >= 2, Len(func) <= Len(divisor) + 1
  PROVE  LET r == FastDivideMonic(func, divisor).remainder
         IN  r # Panic /\ r \in Seq(Field) /\ Len(r) < Len(divisor)
<1> DEFINE r == FastDivideMonic(func, divisor).remainder
           n == Len(func)
           m == Len(divisor)
           diff == n - m
           rd == Reverse(divisor)
<1>1. /\ n \in Nat /\ m \in Nat \ {0} /\ divisor \in Seq(Field) /\ divisor[m] = 1
  BY SeqIsPolynomial DEF Monic
<1>2. r # Panic
  <2>1. CASE n < m
    BY <2>1, PanicIsNoPolynomial DEF FastDivideMonic
  <2>2. CASE n >= m
    <3>1. diff + 1 \in {1, 2}
      BY <1>1, <2>2
    <3>2. rd \in Seq(Field) /\ Len(rd) = m /\ rd[1] = 1
      <4>1. 1 \in 1 .. m /\ m + 1 - 1 = m
        BY <1>1
      <4> QED BY <1>1, <4>1, ReverseIs
    <3>3. InverseModXl(rd, diff + 1) # Panic
      <4> HIDE DEF rd, diff
      <4>1. Len(rd) # 0
        BY <1>1, <3>2
      <4> QED BY <3>1, <3>2, <4>1, ShortInverse
    <3> DEFINE q == QuotientBy(func, InverseModXl(rd, diff + 1), diff)
    <3>4. q \in Seq(Field) /\ r = PolySub(func, PolyMul(divisor, q))
      BY <2>2, <3>3, DivisionShape DEF Subtract
    <3> HIDE DEF q, r
    <3>5. r \in Seq(Field)
      <4>1. PolyMul(divisor, q) \in Seq(Field)
        BY <1>1, <3>4, PolyMulIs
      <4> QED BY <3>4, <4>1, PolySubIs
    <3> QED BY <3>5, PanicIsNoPolynomial
  <2> QED BY <1>1, <2>1, <2>2
<1> QED BY <1>2, DivisionIsEuclids

\* A polynomial without leading zeros has its degree, which is below its number
\* of coefficients.
LEMMA TrimmedDegree ==
  ASSUME NEW g \in Seq(Field), Trimmed(g), NEW n \in Nat \ {0}, Len(g) <= n
  PROVE  DegreeDefined(g) /\ ~(Degree(g) >= n)
<1>1. Len(g) \in Nat /\ DOMAIN g = 1 .. Len(g)
  BY SeqIsPolynomial
<1>2. CASE g = <<>>
  <2>1. Len(g) = 0
    BY <1>2
  <2>2. IsZero(g)
    BY <1>1, <2>1 DEF IsZero
  <2> QED BY <2>2 DEF DegreeDefined, Degree
<1>3. CASE g # <<>>
  <2>1. Len(g) # 0 /\ Len(g) \in DOMAIN g /\ g[Len(g)] # 0
    BY <1>1, <1>3, EmptySeq DEF Trimmed
  <2>2. ~IsZero(g)
    BY <2>1 DEF IsZero
  <2> QED BY <1>1, <2>1, <2>2 DEF DegreeDefined, Degree
<1> QED BY <1>2, <1>3

\* With at most four points no division goes beyond the first step of the Newton
\* iteration, so evaluation panics only at a zero.
LEMMA SmallTreeSucceeds ==
  ASSUME NEW v \in Domains, Len(v) <= 4,
         NEW g \in Seq(Field), Trimmed(g), Len(g) <= Len(v),
         \A k \in 1 .. Len(v) : Evaluate(g, v[k]) # 0
  PROVE  TreeEvaluate(g, v) # Panic
<1> DEFINE Fits(h, w) == /\ Trimmed(h) /\ Len(h) <= Len(w)
                         /\ \A k \in 1 .. Len(w) : Evaluate(h, w[k]) # 0
           S == {w \in Domains : Len(w) <= 4 =>
                   \A h \in Seq(Field) : Fits(h, w) => TreeEvaluate(h, w) # Panic}
<1>1. ASSUME NEW w \in Domains, NEW h \in Seq(Field), Fits(h, w)
      PROVE  /\ h \in Dividends /\ h # Panic /\ DegreeDefined(h) /\ ~(Degree(h) >= Len(w))
             /\ TreeEvaluate(h, w) =
                   NodeValue(w, h, TreeEvaluate(RemainderBy(h, FirstHalf(w)), FirstHalf(w)),
                                   TreeEvaluate(RemainderBy(h, SecondHalf(w)), SecondHalf(w)))
  <2>1. h \in Dividends /\ h # Panic
    BY PanicIsNoPolynomial DEF Dividends
  <2>2. Len(w) \in Nat \ {0}
    BY DomainLength
  <2>3. DegreeDefined(h) /\ ~(Degree(h) >= Len(w))
    BY <1>1, <2>2, TrimmedDegree
  <2> QED BY <2>1, <2>3, EvaluationUnfolds
<1>2. ASSUME NEW w \in Domains, Len(w) = 1
      PROVE  w \in S
  <2> SUFFICES ASSUME NEW h \in Seq(Field), Fits(h, w)
               PROVE  TreeEvaluate(h, w) # Panic
    OBVIOUS
  <2>1. h # <<>>
    <3>1. ASSUME h = <<>> PROVE FALSE
      <4>1. h \in Polynomials(0)
        <5>1. Len(h) = 0 /\ h \in Polynomials(Len(h))
          BY <3>1, SeqIsPolynomial
        <5> QED BY <5>1
      <4>2. w[1] \in Field /\ 1 \in 1 .. Len(w)
        BY <1>2, DomainLength
      <4>3. Evaluate(h, w[1]) = 0
        BY <4>1, <4>2, EmptyPolynomial
      <4> QED BY <4>2, <4>3
    <3> QED BY <3>1
  <2>2. TreeEvaluate(h, w) = <<h[1]>>
    BY <1>1, <1>2, <2>1 DEF NodeValue
  <2>3. h[1] \in Field
    <3>1. Len(h) \in Nat \ {0}
      BY <2>1, SeqIsPolynomial, EmptySeq
    <3>2. 1 \in 1 .. Len(h)
      BY <3>1
    <3> QED BY <3>2, SeqIsPolynomial
  <2>4. <<h[1]>> \in Seq(Field)
    BY <2>3, SingleOfField
  <2> QED BY <2>2, <2>4, PanicIsNoPolynomial
<1>3. ASSUME NEW w \in Domains, Len(w) # 1, FirstHalf(w) \in S, SecondHalf(w) \in S
      PROVE  w \in S
  <2> SUFFICES ASSUME Len(w) <= 4, NEW h \in Seq(Field), Fits(h, w)
               PROVE  TreeEvaluate(h, w) # Panic
    OBVIOUS
  <2> DEFINE a == FirstHalf(w)  b == SecondHalf(w)
  <2>1. /\ a \in Domains /\ b \in Domains /\ Len(w) \in Nat
        /\ Half(w) \in 1 .. Len(w) - 1
        /\ Len(a) = Half(w) /\ Len(b) = Len(w) - Half(w)
        /\ \A i \in 1 .. Half(w) : a[i] = w[i]
        /\ \A i \in 1 .. Len(w) - Half(w) : b[i] = w[Half(w) + i]
    BY <1>3, Halves
  <2>2. Half(w) + 2 >= Len(w) /\ Len(w) - Half(w) + 2 >= Len(w)
    BY <2>1 DEF Half
  <2> HIDE DEF a, b
  <2>3. ASSUME NEW x \in Domains, Len(x) + 2 >= Len(w), Len(x) < Len(w),
               \A k \in 1 .. Len(x) : Evaluate(h, x[k]) # 0, x \in S
        PROVE  TreeEvaluate(RemainderBy(h, x), x) # Panic
    <3> DEFINE r == RemainderBy(h, x)
               m == SubproductTree(x)
    <3>1. Monic(m) /\ Len(m) = Len(x) + 1 /\ Len(x) \in Nat \ {0}
      BY TreeIs, DomainLength
    <3>2. Len(m) >= 2 /\ Len(h) <= Len(m) + 1
      BY <2>1, <2>3, <3>1, SeqIsPolynomial
    <3>3. r = FastDivideMonic(h, m).remainder
      BY DEF RemainderBy
    <3> HIDE DEF r, m
    <3>4. r # Panic /\ r \in Seq(Field) /\ Len(r) < Len(m)
      BY <1>1, <3>1, <3>2, <3>3, SmallDivision
    <3>5. Trimmed(r) /\ \A k \in 1 .. Len(x) : Evaluate(r, x[k]) = Evaluate(h, x[k])
      BY <3>4, RemainderIs DEF r
    <3>6. Len(r) <= Len(x)
      BY <3>1, <3>4, SeqIsPolynomial
    <3>7. Fits(r, x)
      BY <2>3, <3>5, <3>6
    <3>8. Len(x) <= 4
      BY <2>1, <2>3, <3>1
    <3> QED BY <2>3, <3>4, <3>7, <3>8 DEF r
  <2> HIDE DEF S
  <2>4. TreeEvaluate(RemainderBy(h, a), a) # Panic
    <3>1. \A k \in 1 .. Len(a) : k \in 1 .. Len(w) /\ a[k] = w[k]
      BY <2>1
    <3>2. \A k \in 1 .. Len(a) : Evaluate(h, a[k]) # 0
      BY <3>1
    <3>3. Len(a) + 2 >= Len(w) /\ Len(a) < Len(w)
      BY <2>1, <2>2
    <3> QED BY <1>3, <2>1, <2>3, <3>2, <3>3 DEF a
  <2>5. TreeEvaluate(RemainderBy(h, b), b) # Panic
    <3>1. \A k \in 1 .. Len(b) : Half(w) + k \in 1 .. Len(w) /\ b[k] = w[Half(w) + k]
      BY <2>1
    <3>2. \A k \in 1 .. Len(b) : Evaluate(h, b[k]) # 0
      BY <3>1
    <3>3. Len(b) + 2 >= Len(w) /\ Len(b) < Len(w)
      BY <2>1, <2>2
    <3> QED BY <1>3, <2>1, <2>3, <3>2, <3>3 DEF b
  <2> DEFINE x == TreeEvaluate(RemainderBy(h, a), a)
             y == TreeEvaluate(RemainderBy(h, b), b)
  <2>6. x \in Seq(Field) /\ y \in Seq(Field)
    <3>1. ASSUME NEW z \in Domains
          PROVE  TreeEvaluate(RemainderBy(h, z), z) \in Dividends
      <4>1. RemainderBy(h, z) \in Dividends
        BY RemainderIs
      <4> QED BY <4>1, EvaluationUnfolds
    <3> QED BY <2>1, <2>4, <2>5, <3>1 DEF Dividends
  <2>7. TreeEvaluate(h, w) = NodeValue(w, h, x, y)
    BY <1>1 DEF a, b
  <2>8. x # Panic /\ y # Panic
    BY <2>4, <2>5
  <2> HIDE DEF x, y
  <2>9. TreeEvaluate(h, w) = x \o y
    BY <1>1, <1>3, <2>7, <2>8 DEF NodeValue
  <2>10. x \o y \in Seq(Field)
    BY <2>6, ConcatOfField
  <2> QED BY <2>9, <2>10, PanicIsNoPolynomial
<1> HIDE DEF S
<1>4. v \in S
  BY <1>2, <1>3, TreeInduction
<1> QED BY <1>4 DEF S

\* The derivative of the product of fewer factors than the field has elements
\* keeps its leading coefficient.
LEMMA DerivativeOfTree ==
  ASSUME NEW u \in Domains, Len(u) < P
  PROVE  LET g == Derivative(SubproductTree(u))
         IN  g \in Seq(Field) /\ Len(g) = Len(u) /\ Trimmed(g)
<1> DEFINE m == SubproductTree(u)
           g == Derivative(m)
           n == Len(u)
<1>1. n \in Nat \ {0} /\ n \in Int
  BY DomainLength
<1>2. m \in Seq(Field) /\ Len(m) = n + 1 /\ m[Len(m)] = 1
  BY TreeIs DEF Monic
<1> HIDE DEF m
<1>3. /\ g \in Seq(Field) /\ Len(g) = n
      /\ Coefficient(g, n) = Mul(n, Coefficient(m, n + 1))
  BY <1>1, <1>2, DerivativeIs
<1> HIDE DEF g
<1>4. Coefficient(m, n + 1) = 1
  <2>1. n + 1 \in Int /\ n + 1 \in 1 .. Len(m)
    BY <1>1, <1>2
  <2> QED BY <1>2, <2>1, CoefficientIs
<1>5. n \in Field
  BY <1>1, ModulusIsNat DEF Field
<1>6. Coefficient(g, n) = n
  BY <1>3, <1>4, <1>5, MulLaws
<1>7. g[n] = n
  <2>1. n \in 1 .. Len(g)
    BY <1>1, <1>3
  <2> QED BY <1>1, <1>3, <1>6, <2>1, CoefficientIs
<1>8. Trimmed(g)
  BY <1>1, <1>3, <1>7 DEF Trimmed
<1> QED BY <1>3, <1>8 DEF g, m

\* inverse_lagrange_coefficients (subproductdomain/src/lib.rs) of at most four
\* different points, fewer than the field has, does not panic, in whatever order
\* they come.
THEOREM FewPointsHaveLagrange ==
  ASSUME NEW u \in Domains, Len(u) <= 4, Len(u) < P,
         \A j, k \in 1 .. Len(u) : u[j] = u[k] => j = k
  PROVE  InverseLagrangeCoefficients(u) # Panic
<1> DEFINE m == SubproductTree(u)
           g == Derivative(m)
           n == Len(u)
<1>1. n \in Nat \ {0} /\ n \in Int
  BY DomainLength
<1>2. CASE n = 1
  <2>1. InverseLagrangeCoefficients(u) = <<1>>
    BY <1>2 DEF InverseLagrangeCoefficients
  <2>2. <<1>> \in Seq(Field)
    BY Closed, SingleOfField
  <2> QED BY <2>1, <2>2, PanicIsNoPolynomial
<1>3. CASE n # 1
  <2>1. InverseLagrangeCoefficients(u) = TreeEvaluate(g, u)
    BY <1>3 DEF InverseLagrangeCoefficients
  <2>2. g \in Seq(Field) /\ Len(g) = n /\ Trimmed(g)
    BY DerivativeOfTree
  <2>3. \A k \in 1 .. n : Evaluate(g, u[k]) # 0
    <3> TAKE k \in 1 .. n
    <3>1. Evaluate(g, u[k]) = Spread(u, k)
      BY TreeIs DEF Slope
    <3> QED BY <3>1, SpreadIs
  <2> HIDE DEF g
  <2> QED BY <1>1, <2>1, <2>2, <2>3, SmallTreeSucceeds
<1> QED BY <1>2, <1>3
-----------------------------------------------------------------------------
(***************************************************************************)
(* Interpolation.                                                          *)
(***************************************************************************)

\* A polynomial with as many zeros as coefficients is zero.
LEMMA FewRoots ==
  \A n \in Nat : \A p \in Polynomials(n) : \A xs :
     /\ \A i \in 1 .. n : xs[i] \in Field /\ Evaluate(p, xs[i]) = 0
     /\ \A i, j \in 1 .. n : xs[i] = xs[j] => i = j
     => \A i \in 1 .. n : p[i] = 0
<1> DEFINE Roots(p, xs, n) == /\ \A i \in 1 .. n : xs[i] \in Field /\ Evaluate(p, xs[i]) = 0
                              /\ \A i, j \in 1 .. n : xs[i] = xs[j] => i = j
           S == {n \in Nat : \A p \in Polynomials(n) : \A xs :
                    Roots(p, xs, n) => \A i \in 1 .. n : p[i] = 0}
<1>1. 0 \in S
  OBVIOUS
<1>2. ASSUME NEW n \in Nat, n \in S PROVE n + 1 \in S
  <2> SUFFICES ASSUME NEW p \in Polynomials(n + 1), NEW xs, Roots(p, xs, n + 1)
               PROVE  \A i \in 1 .. n + 1 : p[i] = 0
    OBVIOUS
  <2> DEFINE a == xs[n + 1]
             r == [i \in 1 .. n |-> p[i]]
  <2>1. a \in Field /\ Evaluate(p, a) = 0 /\ n + 1 \in 1 .. n + 1
    OBVIOUS
  <2>2. \A i \in 1 .. n + 1 : p[i] \in Field
    BY PolynomialLength
  <2>3. PICK q \in Polynomials(n) : Divides(q, p, a) /\ (n = 0 \/ q[n] = p[n + 1])
    BY <2>1, SyntheticDivision
  <2>4. \A i \in 1 .. n : xs[i] \in Field /\ Evaluate(p, xs[i]) = 0 /\ xs[i] # a
    OBVIOUS
  <2>5. ASSUME NEW i \in 1 .. n
        PROVE  Evaluate(q, xs[i]) = 0
    <3>1. xs[i] \in Field /\ Sub(xs[i], a) \in Field /\ Evaluate(q, xs[i]) \in Field
      BY <2>1, <2>4, Closed, EvaluateInField
    <3>2. Evaluate(p, xs[i]) = Add(Evaluate(p, a), Mul(Sub(xs[i], a), Evaluate(q, xs[i])))
      BY <2>3, <3>1 DEF Divides
    <3>3. Mul(Sub(xs[i], a), Evaluate(q, xs[i])) \in Field
      BY <3>1, Closed
    <3>4. Mul(Sub(xs[i], a), Evaluate(q, xs[i])) = 0
      BY <2>1, <2>4, <3>2, <3>3, AddLaws
    <3>5. Sub(xs[i], a) # 0
      BY <2>1, <2>4, <3>1, SubLaws
    <3> QED BY <3>1, <3>4, <3>5, NoZeroDivisors
  <2>6. \A i, j \in 1 .. n : xs[i] = xs[j] => i = j
    OBVIOUS
  <2>7. \A i \in 1 .. n : q[i] = 0
    BY <1>2, <2>4, <2>5, <2>6
  <2>8. p[n + 1] = 0
    <3>1. CASE n = 0
      <4> DEFINE e == Shifted(p, 0)
      <4>1. p \in Polynomials(0 + 1)
        BY <3>1
      <4>2. e \in Polynomials(0) /\ p[1] \in Field
            /\ Evaluate(p, a) = Add(p[1], Mul(a, Evaluate(e, a)))
        BY <2>1, <4>1, EvaluateStep
      <4> HIDE DEF e
      <4>3. Evaluate(e, a) = 0
        BY <2>1, <4>2, EmptyPolynomial
      <4>4. Evaluate(p, a) = p[1]
        BY <2>1, <4>2, <4>3, MulLaws, AddLaws
      <4> QED BY <2>1, <3>1, <4>4
    <3>2. CASE n # 0
      <4>1. n \in 1 .. n
        BY <3>2
      <4> QED BY <2>3, <2>7, <3>2, <4>1
    <3> QED BY <3>1, <3>2
  <2>9. r \in Polynomials(n)
    BY <2>2 DEF Polynomials
  <2>10. \A x \in Field : Evaluate(r, x) = Evaluate(p, x)
    <3> TAKE x \in Field
    <3>1. /\ r \in Seq(Field) /\ Len(r) = n /\ p \in Seq(Field) /\ Len(p) = n + 1
          /\ DOMAIN r = 1 .. n /\ DOMAIN p = 1 .. n + 1
      BY <2>9, PolynomialIsSeq, SeqIsPolynomial
    <3>2. \A i \in 1 .. n : r[i] = p[i]
      OBVIOUS
    <3> HIDE DEF r
    <3>3. Agree(r, p)
      <4> SUFFICES ASSUME NEW i \in Nat \ {0}
                   PROVE  Coefficient(r, i) = Coefficient(p, i)
        BY DEF Agree
      <4>1. CASE i \in 1 .. n
        BY <3>1, <3>2, <4>1 DEF Coefficient
      <4>2. CASE i = n + 1
        BY <2>8, <3>1, <4>2 DEF Coefficient
      <4>3. CASE i > n + 1
        BY <3>1, <4>3 DEF Coefficient
      <4> QED BY <4>1, <4>2, <4>3
    <3> QED BY <3>1, <3>3, AgreeValue
  <2>11. \A i \in 1 .. n : Evaluate(r, xs[i]) = 0
    BY <2>4, <2>10
  <2>12. \A i \in 1 .. n : r[i] = 0
    <3> HIDE DEF r
    <3> QED BY <1>2, <2>4, <2>6, <2>9, <2>11
  <2> QED BY <2>8, <2>12
<1> HIDE DEF S
<1>3. Nat \subseteq S
  BY <1>1, <1>2, Induction
<1> QED BY <1>3 DEF S

\* Two polynomials with at most n coefficients that agree at n different points
\* are the same, leading zeros apart.
LEMMA SameValues ==
  ASSUME NEW n \in Nat, NEW p \in Seq(Field), NEW q \in Seq(Field),
         Len(p) <= n, Len(q) <= n,
         NEW xs, \A i \in 1 .. n : xs[i] \in Field,
         \A i, j \in 1 .. n : xs[i] = xs[j] => i = j,
         \A i \in 1 .. n : Evaluate(p, xs[i]) = Evaluate(q, xs[i])
  PROVE  Agree(p, q)
<1> DEFINE d == PolySub(p, q)
           r == Resize(d, n)
<1>1. /\ d \in Seq(Field) /\ Len(d) <= n
      /\ \A i \in Nat \ {0} : Coefficient(d, i) = Sub(Coefficient(p, i), Coefficient(q, i))
      /\ \A x \in Field : Evaluate(d, x) = Sub(Evaluate(p, x), Evaluate(q, x))
  <2>1. /\ d \in Seq(Field) /\ Len(d) <= Longer(p, q)
        /\ \A i \in Nat \ {0} : Coefficient(d, i) = Sub(Coefficient(p, i), Coefficient(q, i))
        /\ \A x \in Field : Evaluate(d, x) = Sub(Evaluate(p, x), Evaluate(q, x))
    BY PolySubIs
  <2> HIDE DEF d
  <2>2. Longer(p, q) <= n /\ Longer(p, q) \in Nat /\ Len(d) \in Nat
    BY <2>1, SeqIsPolynomial DEF Longer
  <2> QED BY <2>1, <2>2
<1> HIDE DEF d
<1>2. /\ r \in Polynomials(n) /\ Agree(d, r)
      /\ \A x \in Field : Evaluate(r, x) = Evaluate(d, x)
  BY <1>1, ResizeAgrees, ResizeValue
<1>3. \A i \in 1 .. n : xs[i] \in Field /\ Evaluate(r, xs[i]) = 0
  <2> TAKE i \in 1 .. n
  <2>1. Evaluate(p, xs[i]) \in Field
    BY ValuesInField
  <2> HIDE DEF r
  <2> QED BY <1>1, <1>2, <2>1, SubLaws
<1> HIDE DEF r
<1>4. \A i \in 1 .. n : r[i] = 0
  BY <1>2, <1>3, FewRoots
<1>5. ASSUME NEW i \in Nat \ {0}
      PROVE  Coefficient(p, i) = Coefficient(q, i)
  <2>1. Coefficient(r, i) = 0
    <3>1. r \in Seq(Field) /\ Len(r) = n /\ i \in Int
      BY <1>2, PolynomialIsSeq
    <3> QED BY <1>4, <3>1, CoefficientIs
  <2>2. Coefficient(d, i) = 0
    BY <1>2, <2>1 DEF Agree
  <2>3. Coefficient(p, i) \in Field /\ Coefficient(q, i) \in Field
    BY CoefficientIs
  <2> QED BY <1>1, <2>2, <2>3, SubLaws
<1> QED BY <1>5 DEF Agree

CombineNode(v, first, second) ==
    PolyAdd(PolyMul(SubproductTree(SecondHalf(v)), first),
            PolyMul(SubproductTree(FirstHalf(v)), second))

FirstOf(v, d) == SubSeq(d, 1, Half(v))

SecondOf(v, d) == SubSeq(d, Half(v) + 1, Len(v))

CombinedBy(r, v, d) ==
    IF Len(v) = 1 THEN <<d[1]>>
    ELSE CombineNode(v, r[FirstHalf(v)][FirstOf(v, d)],
                        r[SecondHalf(v)][SecondOf(v, d)])

IsCombination(r) ==
    r = [v \in Domains |-> [d \in Polynomials(Len(v)) |-> CombinedBy(r, v, d)]]

LEMMA PartsOf ==
  ASSUME NEW v \in Domains, Len(v) # 1, NEW d \in Polynomials(Len(v))
  PROVE  /\ FirstOf(v, d) \in Polynomials(Len(FirstHalf(v)))
         /\ SecondOf(v, d) \in Polynomials(Len(SecondHalf(v)))
         /\ \A i \in 1 .. Half(v) : FirstOf(v, d)[i] = d[i]
         /\ \A i \in 1 .. Len(v) - Half(v) : SecondOf(v, d)[i] = d[Half(v) + i]
<1> DEFINE n == Len(v)
           h == Half(v)
           a == FirstOf(v, d)
           b == SecondOf(v, d)
<1>1. /\ n \in Nat /\ h \in 1 .. n - 1
      /\ Len(FirstHalf(v)) = h /\ Len(SecondHalf(v)) = n - h
  BY Halves
<1>2. d \in Seq(Field) /\ Len(d) = n
  BY <1>1, PolynomialIsSeq
<1>3. /\ a \in Seq(Field) /\ Len(a) = h /\ \A i \in 1 .. h : a[i] = d[i]
  <2>1. 1 \in Nat /\ h \in Nat /\ 1 >= 1 /\ h <= Len(d) /\ 1 <= h + 1 /\ h + 1 - 1 = h
    BY <1>1, <1>2
  <2> HIDE DEF h
  <2>2. /\ a \in Seq(Field) /\ Len(a) = h + 1 - 1
        /\ \A i \in 1 .. h + 1 - 1 : a[i] = d[1 + i - 1]
    BY <1>2, <2>1, SubSeqOfField DEF FirstOf, h
  <2>3. \A i \in 1 .. h : 1 + i - 1 = i
    BY <2>1
  <2> QED BY <2>1, <2>2, <2>3
<1>4. /\ b \in Seq(Field) /\ Len(b) = n - h /\ \A i \in 1 .. n - h : b[i] = d[h + i]
  <2>1. h + 1 \in Nat /\ h + 1 >= 1 /\ n <= Len(d) /\ h + 1 <= n + 1 /\ n + 1 - (h + 1) = n - h
    BY <1>1, <1>2
  <2> HIDE DEF h, n
  <2>2. /\ b \in Seq(Field) /\ Len(b) = n + 1 - (h + 1)
        /\ \A i \in 1 .. n + 1 - (h + 1) : b[i] = d[(h + 1) + i - 1]
    BY <1>1, <1>2, <2>1, SubSeqOfField DEF SecondOf, h, n
  <2>3. \A i \in 1 .. n - h : (h + 1) + i - 1 = h + i
    BY <1>1
  <2> QED BY <2>1, <2>2, <2>3
<1> HIDE DEF a, b
<1> QED BY <1>1, <1>3, <1>4, SeqIsPolynomial DEF a, b
LEMMA CombineType ==
  ASSUME NEW v \in Domains, Len(v) # 1, NEW p \in Seq(Field), NEW q \in Seq(Field)
  PROVE  CombineNode(v, p, q) \in Seq(Field)
<1>1. SubproductTree(FirstHalf(v)) \in Seq(Field) /\ SubproductTree(SecondHalf(v)) \in Seq(Field)
  BY Halves, TreeUnfolds
<1>2. /\ PolyMul(SubproductTree(SecondHalf(v)), p) \in Seq(Field)
      /\ PolyMul(SubproductTree(FirstHalf(v)), q) \in Seq(Field)
  BY <1>1, PolyMulIs
<1> QED BY <1>2, PolyAddIs DEF CombineNode

LEMMA CombineUnfolds ==
  ASSUME NEW v \in Domains, NEW d \in Polynomials(Len(v))
  PROVE  /\ LinearCombine(v, d) \in Seq(Field)
         /\ Len(v) = 1 => LinearCombine(v, d) = <<d[1]>>
         /\ Len(v) # 1 => LinearCombine(v, d) =
               CombineNode(v, LinearCombine(FirstHalf(v), FirstOf(v, d)),
                              LinearCombine(SecondHalf(v), SecondOf(v, d)))
<1> DEFINE Maps(n) == [Polynomials(n) -> Seq(Field)]
           R == UNION {Maps(n) : n \in Nat}
           Node(w, a, b, e) ==
              IF /\ Len(w) # 1
                 /\ a \in Maps(Len(FirstHalf(w))) /\ b \in Maps(Len(SecondHalf(w)))
              THEN CombineNode(w, a[FirstOf(w, e)], b[SecondOf(w, e)]) ELSE <<>>
           leaf == [w \in Domains |-> [e \in Polynomials(Len(w)) |->
                      IF Len(w) = 1 THEN <<e[1]>> ELSE <<>>]]
           join == [w \in Domains |-> [a \in R |-> [b \in R |->
                      [e \in Polynomials(Len(w)) |-> Node(w, a, b, e)]]]]
<1>0. <<>> \in Seq(Field)
  OBVIOUS
<1>1. ASSUME NEW w \in Domains
      PROVE  leaf[w] \in Maps(Len(w))
  <2>1. ASSUME NEW e \in Polynomials(Len(w)), Len(w) = 1
        PROVE  <<e[1]>> \in Seq(Field)
    <3>1. e[1] \in Field
      BY <2>1 DEF Polynomials
    <3> QED BY <3>1, SingleOfField
  <2> QED BY <1>0, <2>1
<1>2. ASSUME NEW w \in Domains, NEW a, NEW b, NEW e \in Polynomials(Len(w))
      PROVE  Node(w, a, b, e) \in Seq(Field)
  <2>1. CASE /\ Len(w) # 1
             /\ a \in Maps(Len(FirstHalf(w))) /\ b \in Maps(Len(SecondHalf(w)))
    <3>1. /\ FirstOf(w, e) \in Polynomials(Len(FirstHalf(w)))
          /\ SecondOf(w, e) \in Polynomials(Len(SecondHalf(w)))
      BY <2>1, PartsOf
    <3>2. a[FirstOf(w, e)] \in Seq(Field) /\ b[SecondOf(w, e)] \in Seq(Field)
      BY <2>1, <3>1
    <3>3. CombineNode(w, a[FirstOf(w, e)], b[SecondOf(w, e)]) \in Seq(Field)
      BY <2>1, <3>2, CombineType
    <3> QED BY <2>1, <3>3
  <2> QED BY <1>0, <2>1
<1>3. ASSUME NEW w \in Domains, NEW a \in R, NEW b \in R
      PROVE  join[w][a][b] \in Maps(Len(w))
  <2>1. join[w][a][b] = [e \in Polynomials(Len(w)) |-> Node(w, a, b, e)]
    OBVIOUS
  <2> HIDE DEF join, Node
  <2> QED BY <1>2, <2>1
<1>4. \A w \in Domains : Maps(Len(w)) \subseteq R
  BY DomainLength
<1>5. leaf \in [Domains -> R]
  <2>1. \A w \in Domains : leaf[w] \in R
    <3> HIDE DEF leaf, R, Maps
    <3> QED BY <1>1, <1>4
  <2> QED BY <2>1
<1>6. join \in [Domains -> [R -> [R -> R]]]
  <2>1. ASSUME NEW w \in Domains, NEW a \in R, NEW b \in R
        PROVE  [e \in Polynomials(Len(w)) |-> Node(w, a, b, e)] \in R
    <3>1. join[w][a][b] = [e \in Polynomials(Len(w)) |-> Node(w, a, b, e)]
      OBVIOUS
    <3> HIDE DEF join, Node, R, Maps
    <3> QED BY <1>3, <1>4, <3>1
  <2> HIDE DEF Node, R, Maps
  <2> QED BY <2>1
<1>7. PICK f \in [Domains -> R] : \A w \in Domains : Recurs(f, leaf, join, w)
  <2> HIDE DEF leaf, join, R
  <2> QED BY <1>5, <1>6, TreeRecursion
<1>8. ASSUME NEW w \in Domains
      PROVE  f[w] \in Maps(Len(w))
  <2>1. CASE Len(w) = 1
    <3>1. f[w] = leaf[w]
      BY <1>7, <2>1 DEF Recurs
    <3> HIDE DEF leaf, Maps
    <3> QED BY <1>1, <3>1
  <2>2. CASE Len(w) # 1
    <3>1. f[FirstHalf(w)] \in R /\ f[SecondHalf(w)] \in R
      BY <2>2, Halves
    <3>2. f[w] = join[w][f[FirstHalf(w)]][f[SecondHalf(w)]]
      BY <1>7, <2>2 DEF Recurs
    <3> HIDE DEF join, Maps, R
    <3> QED BY <1>3, <3>1, <3>2
  <2> QED BY <2>1, <2>2
<1>9. ASSUME NEW w \in Domains, NEW e \in Polynomials(Len(w))
      PROVE  f[w][e] = CombinedBy(f, w, e)
  <2>1. CASE Len(w) = 1
    <3>1. f[w] = leaf[w]
      BY <1>7, <2>1 DEF Recurs
    <3> QED BY <2>1, <3>1 DEF CombinedBy
  <2>2. CASE Len(w) # 1
    <3>1. f[FirstHalf(w)] \in R /\ f[SecondHalf(w)] \in R
      BY <2>2, Halves
    <3>2. f[w] = join[w][f[FirstHalf(w)]][f[SecondHalf(w)]]
      BY <1>7, <2>2 DEF Recurs
    <3>3. f[w][e] = Node(w, f[FirstHalf(w)], f[SecondHalf(w)], e)
      <4> HIDE DEF Node, R
      <4> QED BY <3>1, <3>2
    <3>4. /\ f[FirstHalf(w)] \in Maps(Len(FirstHalf(w)))
          /\ f[SecondHalf(w)] \in Maps(Len(SecondHalf(w)))
      <4> HIDE DEF Maps
      <4> QED BY <1>8, <2>2, Halves
    <3> HIDE DEF Maps
    <3> QED BY <2>2, <3>3, <3>4 DEF CombinedBy
  <2> QED BY <2>1, <2>2
<1>10. \A w \in Domains : f[w] = [e \in Polynomials(Len(w)) |-> CombinedBy(f, w, e)]
  <2> TAKE w \in Domains
  <2>1. f[w] \in [Polynomials(Len(w)) -> Seq(Field)]
    BY <1>8
  <2> QED BY <1>9, <2>1
<1>11. IsCombination(f)
  <2>1. f = [w \in Domains |-> [e \in Polynomials(Len(w)) |-> CombinedBy(f, w, e)]]
    BY <1>10
  <2> QED BY <2>1 DEF IsCombination
<1> DEFINE t == CHOOSE r : IsCombination(r)
<1>12. IsCombination(t)
  BY <1>11
<1>13. \A e, w : LinearCombine(w, e) = t[w][e]
  BY Zenon DEF LinearCombine, IsCombination, CombinedBy, CombineNode, FirstOf, SecondOf
<1> HIDE DEF t
<1>14. t = [w \in Domains |-> [e \in Polynomials(Len(w)) |-> CombinedBy(t, w, e)]]
  BY <1>12 DEF IsCombination
<1>15. \A w \in Domains : \A e \in Polynomials(Len(w)) : t[w][e] = CombinedBy(t, w, e)
  BY <1>14
<1> DEFINE S == {w \in Domains : \A e \in Polynomials(Len(w)) : t[w][e] \in Seq(Field)}
<1>16. ASSUME NEW w \in Domains, Len(w) = 1
       PROVE  w \in S
  <2> SUFFICES ASSUME NEW e \in Polynomials(Len(w)) PROVE t[w][e] \in Seq(Field)
    OBVIOUS
  <2>1. e[1] \in Field
    BY <1>16 DEF Polynomials
  <2>2. t[w][e] = <<e[1]>>
    BY <1>15, <1>16 DEF CombinedBy
  <2> QED BY <2>1, <2>2, SingleOfField
<1>17. ASSUME NEW w \in Domains, Len(w) # 1, FirstHalf(w) \in S, SecondHalf(w) \in S
       PROVE  w \in S
  <2> SUFFICES ASSUME NEW e \in Polynomials(Len(w)) PROVE t[w][e] \in Seq(Field)
    OBVIOUS
  <2>1. /\ FirstOf(w, e) \in Polynomials(Len(FirstHalf(w)))
        /\ SecondOf(w, e) \in Polynomials(Len(SecondHalf(w)))
    BY <1>17, PartsOf
  <2>2. /\ t[FirstHalf(w)][FirstOf(w, e)] \in Seq(Field)
        /\ t[SecondHalf(w)][SecondOf(w, e)] \in Seq(Field)
    BY <1>17, <2>1
  <2>3. t[w][e] = CombineNode(w, t[FirstHalf(w)][FirstOf(w, e)],
                                 t[SecondHalf(w)][SecondOf(w, e)])
    BY <1>15, <1>17 DEF CombinedBy
  <2> QED BY <1>17, <2>2, <2>3, CombineType
<1> HIDE DEF S
<1>18. v \in S
  BY <1>16, <1>17, TreeInduction
<1>19. t[v][d] \in Seq(Field)
  BY <1>18 DEF S
<1>20. t[v][d] = CombinedBy(t, v, d)
  BY <1>15
<1> QED BY <1>13, <1>19, <1>20 DEF CombinedBy

\* The only difference of a single point is to itself.
LEMMA SpreadOfOne ==
  ASSUME NEW v \in Domains, Len(v) = 1
  PROVE  Spread(v, 1) = 1
<1> DEFINE f == [j \in 1 .. 1 |-> IF j = 1 THEN 1 ELSE Sub(v[1], v[j])]
<1>1. f[1] = 1
  OBVIOUS
<1> HIDE DEF f
<1>2. ProductTo(f, 0 + 1) = Mul(ProductTo(f, 0), f[0 + 1]) /\ ProductTo(f, 0) = 1
  BY ProductUnfolds
<1>3. Mul(1, 1) = 1
  BY Closed, MulLaws
<1>4. ProductTo(f, 1) = 1
  BY <1>1, <1>2, <1>3
<1> QED BY <1>4 DEF Spread, f

\* The sum of the d[k] m / (x - v[k]) at the points.
LEMMA CombineIs ==
  ASSUME NEW v \in Domains, NEW d \in Polynomials(Len(v))
  PROVE  /\ Len(LinearCombine(v, d)) <= Len(v)
         /\ \A k \in 1 .. Len(v) :
               Evaluate(LinearCombine(v, d), v[k]) = Mul(d[k], Spread(v, k))
<1> DEFINE Good(w, e) == /\ Len(LinearCombine(w, e)) <= Len(w)
                         /\ \A k \in 1 .. Len(w) :
                               Evaluate(LinearCombine(w, e), w[k]) = Mul(e[k], Spread(w, k))
           S == {w \in Domains : \A e \in Polynomials(Len(w)) : Good(w, e)}
<1>1. ASSUME NEW w \in Domains, Len(w) = 1
      PROVE  w \in S
  <2> SUFFICES ASSUME NEW e \in Polynomials(1) PROVE Good(w, e)
    BY <1>1
  <2> DEFINE c == LinearCombine(w, e)
             s == Shifted(c, 0)
  <2>1. e[1] \in Field /\ w[1] \in Field
    BY <1>1, DomainLength DEF Polynomials
  <2>2. c \in Seq(Field) /\ c = <<e[1]>>
    BY <1>1, CombineUnfolds
  <2>3. Len(c) = 1 /\ c[1] = e[1]
    BY <2>2
  <2> HIDE DEF c
  <2>4. c \in Polynomials(0 + 1)
    <3>1. c \in Polynomials(Len(c))
      BY <2>2, SeqIsPolynomial
    <3>2. 0 + 1 = 1
      OBVIOUS
    <3> QED BY <2>3, <3>1, <3>2
  <2>5. s \in Polynomials(0) /\ Evaluate(c, w[1]) = Add(c[1], Mul(w[1], Evaluate(s, w[1])))
    BY <2>1, <2>4, EvaluateStep
  <2> HIDE DEF s
  <2>6. Evaluate(s, w[1]) = 0
    BY <2>1, <2>5, EmptyPolynomial
  <2>7. Evaluate(c, w[1]) = e[1]
    BY <2>1, <2>3, <2>5, <2>6, MulLaws, AddLaws
  <2>8. Mul(e[1], Spread(w, 1)) = e[1]
    BY <1>1, <2>1, SpreadOfOne, MulLaws
  <2>9. \A k \in 1 .. Len(w) : k = 1
    BY <1>1
  <2> QED BY <1>1, <2>3, <2>7, <2>8, <2>9 DEF c
<1>2. ASSUME NEW w \in Domains, Len(w) # 1, FirstHalf(w) \in S, SecondHalf(w) \in S
      PROVE  w \in S
  <2> SUFFICES ASSUME NEW e \in Polynomials(Len(w)) PROVE Good(w, e)
    OBVIOUS
  <2> DEFINE a == FirstHalf(w)  b == SecondHalf(w)  h == Half(w)
             p == SubproductTree(a)  q == SubproductTree(b)
             first == FirstOf(w, e)  second == SecondOf(w, e)
             x == LinearCombine(a, first)  y == LinearCombine(b, second)
             c == LinearCombine(w, e)
  <2>1. /\ a \in Domains /\ b \in Domains /\ Len(w) \in Nat /\ h \in 1 .. Len(w) - 1
        /\ Len(a) = h /\ Len(b) = Len(w) - h
        /\ \A i \in 1 .. h : a[i] = w[i]
        /\ \A i \in 1 .. Len(w) - h : b[i] = w[h + i]
        /\ \A i \in 1 .. Len(w) : w[i] \in Field
    BY <1>2, Halves, DomainLength
  <2>2. /\ first \in Polynomials(Len(a)) /\ second \in Polynomials(Len(b))
        /\ \A i \in 1 .. h : first[i] = e[i]
        /\ \A i \in 1 .. Len(w) - h : second[i] = e[h + i]
    BY <1>2, PartsOf
  <2>3. /\ x \in Seq(Field) /\ y \in Seq(Field) /\ c \in Seq(Field)
        /\ c = PolyAdd(PolyMul(q, x), PolyMul(p, y))
    BY <1>2, <2>1, <2>2, CombineUnfolds DEF CombineNode
  <2>4. Good(a, first) /\ Good(b, second)
    BY <1>2, <2>2
  <2>5. /\ p \in Seq(Field) /\ Len(p) = h + 1 /\ \A z \in Field : Evaluate(p, z) = Vanishing(a, z)
        /\ q \in Seq(Field) /\ Len(q) = Len(w) - h + 1
        /\ \A z \in Field : Evaluate(q, z) = Vanishing(b, z)
    BY <2>1, TreeIs DEF Monic
  <2>6. /\ \A k \in 1 .. h : Spread(w, k) = Mul(Spread(a, k), Vanishing(b, w[k]))
        /\ \A k \in h + 1 .. Len(w) : Spread(w, k) = Mul(Vanishing(a, w[k]), Spread(b, k - h))
    BY <1>2, ProductsSplit
  <2>7. /\ Len(x) <= h /\ Len(y) <= Len(w) - h
        /\ \A k \in 1 .. h : Evaluate(x, a[k]) = Mul(first[k], Spread(a, k))
        /\ \A k \in 1 .. Len(w) - h : Evaluate(y, b[k]) = Mul(second[k], Spread(b, k))
    BY <2>1, <2>4
  <2>8. \A k \in 1 .. Len(w) : e[k] \in Field
    BY DEF Polynomials
  <2> HIDE DEF a, b, h, p, q, first, second, x, y, c
  <2>9. Len(c) <= Len(w)
    <3>1. /\ PolyMul(q, x) \in Seq(Field) /\ Len(PolyMul(q, x)) <= Len(q) + Len(x) - 1
          /\ PolyMul(p, y) \in Seq(Field) /\ Len(PolyMul(p, y)) <= Len(p) + Len(y) - 1
      <4>1. Len(q) + Len(x) > 0 /\ Len(p) + Len(y) > 0
        BY <2>1, <2>3, <2>5, SeqIsPolynomial
      <4> QED BY <2>3, <2>5, <4>1, PolyMulIs
    <3>2. Len(c) <= Longer(PolyMul(q, x), PolyMul(p, y))
      BY <2>3, <3>1, PolyAddIs
    <3>3. /\ Len(PolyMul(q, x)) \in Nat /\ Len(PolyMul(p, y)) \in Nat /\ Len(c) \in Nat
          /\ Len(x) \in Nat /\ Len(y) \in Nat
      BY <2>3, <3>1, SeqIsPolynomial
    <3>4. Len(PolyMul(q, x)) <= Len(w)
      <4>1. /\ Len(PolyMul(q, x)) <= Len(q) + Len(x) - 1
            /\ Len(q) = Len(w) - h + 1 /\ Len(x) <= h /\ h \in Nat /\ Len(w) \in Nat
        BY <2>1, <2>5, <2>7, <3>1
      <4> QED BY <3>3, <4>1
    <3>5. Len(PolyMul(p, y)) <= Len(w)
      <4>1. /\ Len(PolyMul(p, y)) <= Len(p) + Len(y) - 1
            /\ Len(p) = h + 1 /\ Len(y) <= Len(w) - h /\ h \in Nat /\ Len(w) \in Nat
        BY <2>1, <2>5, <2>7, <3>1
      <4> QED BY <3>3, <4>1
    <3> QED BY <2>1, <3>2, <3>3, <3>4, <3>5 DEF Longer
  <2>10. ASSUME NEW z \in Field
         PROVE  Evaluate(c, z) = Add(Mul(Vanishing(b, z), Evaluate(x, z)),
                                     Mul(Vanishing(a, z), Evaluate(y, z)))
    <3>1. /\ PolyMul(q, x) \in Seq(Field)
          /\ Evaluate(PolyMul(q, x), z) = Mul(Evaluate(q, z), Evaluate(x, z))
      BY <2>3, <2>5, PolyMulIs
    <3>2. /\ PolyMul(p, y) \in Seq(Field)
          /\ Evaluate(PolyMul(p, y), z) = Mul(Evaluate(p, z), Evaluate(y, z))
      BY <2>3, <2>5, PolyMulIs
    <3>3. Evaluate(c, z) = Add(Evaluate(PolyMul(q, x), z), Evaluate(PolyMul(p, y), z))
      BY <2>3, <3>1, <3>2, PolyAddIs
    <3> QED BY <2>5, <3>1, <3>2, <3>3
  <2>11. ASSUME NEW z \in Field
         PROVE  /\ Evaluate(x, z) \in Field /\ Evaluate(y, z) \in Field
                /\ Vanishing(a, z) \in Field /\ Vanishing(b, z) \in Field
    BY <2>3, <2>5, ValuesInField
  <2>12. ASSUME NEW k \in 1 .. h
         PROVE  Evaluate(c, w[k]) = Mul(e[k], Spread(w, k))
    <3> DEFINE z == w[k]  s == Spread(a, k)  V == Vanishing(b, z)
    <3>1. k \in 1 .. Len(w) /\ z \in Field /\ a[k] = z /\ e[k] \in Field /\ first[k] = e[k]
      BY <2>1, <2>2, <2>8
    <3>2. s \in Field /\ Vanishing(a, z) = 0
      <4>1. k \in 1 .. Len(a)
        BY <2>1
      <4>2. Vanishing(a, a[k]) = 0
        BY <2>1, <4>1, VanishingAtPoint
      <4> QED BY <2>1, <3>1, <4>1, <4>2, SpreadIs
    <3>3. V \in Field /\ Evaluate(y, z) \in Field
      BY <2>11, <3>1
    <3>4. Evaluate(x, z) = Mul(e[k], s)
      BY <2>7, <3>1
    <3>5. Spread(w, k) = Mul(s, V)
      BY <2>6
    <3>6. Evaluate(c, z) = Add(Mul(V, Mul(e[k], s)), Mul(0, Evaluate(y, z)))
      BY <2>10, <3>1, <3>2, <3>4
    <3> HIDE DEF z, s, V
    <3>7. Mul(e[k], s) \in Field /\ Mul(V, Mul(e[k], s)) \in Field
      BY <3>1, <3>2, <3>3, Closed
    <3>8. Evaluate(c, z) = Mul(V, Mul(e[k], s))
      BY <3>3, <3>6, <3>7, MulLaws, AddLaws
    <3>9. Mul(V, Mul(e[k], s)) = Mul(e[k], Mul(s, V))
      BY <3>1, <3>2, <3>3, <3>7, MulLaws
    <3> QED BY <3>5, <3>8, <3>9 DEF z
  <2>13. ASSUME NEW i \in 1 .. Len(w) - h
         PROVE  Evaluate(c, w[h + i]) = Mul(e[h + i], Spread(w, h + i))
    <3> DEFINE k == h + i  z == w[k]  s == Spread(b, i)  V == Vanishing(a, z)
    <3>1. /\ k \in 1 .. Len(w) /\ k \in h + 1 .. Len(w) /\ k - h = i
          /\ z \in Field /\ b[i] = z /\ e[k] \in Field /\ second[i] = e[k]
      <4>1. k \in 1 .. Len(w) /\ k \in h + 1 .. Len(w) /\ k - h = i
        BY <2>1
      <4>2. z \in Field /\ b[i] = z
        BY <2>1, <4>1
      <4>3. e[k] \in Field
        BY <2>8, <4>1
      <4>4. second[i] = e[k]
        BY <2>2
      <4> QED BY <4>1, <4>2, <4>3, <4>4
    <3>2. s \in Field /\ Vanishing(b, z) = 0
      <4>1. i \in 1 .. Len(b)
        BY <2>1
      <4>2. Vanishing(b, b[i]) = 0
        BY <2>1, <4>1, VanishingAtPoint
      <4> QED BY <2>1, <3>1, <4>1, <4>2, SpreadIs
    <3>3. V \in Field /\ Evaluate(x, z) \in Field
      BY <2>11, <3>1
    <3>4. Evaluate(y, z) = Mul(e[k], s)
      BY <2>7, <3>1
    <3>5. Spread(w, k) = Mul(V, s)
      BY <2>6, <3>1
    <3>6. Evaluate(c, z) = Add(Mul(0, Evaluate(x, z)), Mul(V, Mul(e[k], s)))
      BY <2>10, <3>1, <3>2, <3>4
    <3> HIDE DEF z, s, V, k
    <3>7. Mul(e[k], s) \in Field /\ Mul(V, Mul(e[k], s)) \in Field
      BY <3>1, <3>2, <3>3, Closed
    <3>8. Evaluate(c, z) = Mul(V, Mul(e[k], s))
      BY <3>3, <3>6, <3>7, MulLaws, AddLaws
    <3>9. Mul(V, Mul(e[k], s)) = Mul(e[k], Mul(V, s))
      <4>1. Mul(V, Mul(e[k], s)) = Mul(Mul(e[k], s), V)
        BY <3>3, <3>7, MulLaws
      <4>2. Mul(Mul(e[k], s), V) = Mul(e[k], Mul(s, V))
        BY <3>1, <3>2, <3>3, MulLaws
      <4>3. Mul(s, V) = Mul(V, s)
        BY <3>2, <3>3, MulLaws
      <4> QED BY <4>1, <4>2, <4>3
    <3> QED BY <3>5, <3>8, <3>9 DEF z, k
  <2>14. ASSUME NEW k \in 1 .. Len(w)
         PROVE  Evaluate(c, w[k]) = Mul(e[k], Spread(w, k))
    <3>1. CASE k <= h
      <4>1. k \in 1 .. h
        BY <2>1, <3>1
      <4> QED BY <2>12, <4>1
    <3>2. CASE ~(k <= h)
      <4>1. k - h \in 1 .. Len(w) - h /\ h + (k - h) = k
        BY <2>1, <3>2
      <4>2. Evaluate(c, w[h + (k - h)]) = Mul(e[h + (k - h)], Spread(w, h + (k - h)))
        BY <2>13, <4>1
      <4> QED BY <4>1, <4>2
    <3> QED BY <3>1, <3>2
  <2> QED BY <2>9, <2>14 DEF c
<1> HIDE DEF S
<1>3. v \in S
  BY <1>1, <1>2, TreeInduction
<1> QED BY <1>3 DEF S

\* interpolate (subproductdomain/src/lib.rs): unless it panics, it gives the
\* polynomial back from its values at the points of the domain, leading zeros
\* apart, when there are as many points as coefficients.
THEOREM InterpolateIsInverse ==
  ASSUME NEW u \in Domains, InverseLagrangeCoefficients(u) # Panic,
         NEW p \in Seq(Field), Len(p) <= Len(u)
  PROVE  LET v == [i \in 1 .. Len(u) |-> Evaluate(p, u[i])]
         IN  Interpolate(u, v) \in Seq(Field) /\ Agree(Interpolate(u, v), p)
<1> DEFINE n == Len(u)
           v == [i \in 1 .. n |-> Evaluate(p, u[i])]
           s == InverseLagrangeCoefficients(u)
           d == [i \in 1 .. n |-> Mul(Inv(s[i]), v[i])]
           c == LinearCombine(u, d)
<1>1. /\ s = [k \in 1 .. n |-> Spread(u, k)]
      /\ \A k \in 1 .. n : Spread(u, k) \in Field \ {0}
      /\ \A j, k \in 1 .. n : u[j] = u[k] => j = k
      /\ n \in Nat \ {0} /\ \A i \in 1 .. n : u[i] \in Field
  BY LagrangeFromTreeIs, DomainLength
<1>2. Interpolate(u, v) = c
  BY DEF Interpolate
<1> HIDE DEF s
<1>3. ASSUME NEW k \in 1 .. n
      PROVE  /\ v[k] = Evaluate(p, u[k]) /\ v[k] \in Field /\ d[k] \in Field
             /\ Mul(d[k], Spread(u, k)) = v[k]
  <2> DEFINE a == Spread(u, k)  y == v[k]
  <2>1. v[k] = Evaluate(p, u[k]) /\ y \in Field /\ a \in Field \ {0} /\ s[k] = a
    BY <1>1, ValuesInField
  <2>2. d[k] = Mul(Inv(a), y)
    BY <2>1
  <2> HIDE DEF a, y, v, d
  <2>3. Inv(a) \in Field /\ Mul(Inv(a), a) = 1
    BY <2>1, InverseLaws
  <2>4. d[k] \in Field
    <3>1. Mul(Inv(a), y) \in Field
      BY <2>1, <2>3, Closed
    <3> QED BY <2>2, <3>1
  <2>5. Mul(Mul(Inv(a), y), a) = y
    <3>1. Mul(Inv(a), y) = Mul(y, Inv(a))
      BY <2>1, <2>3, MulLaws
    <3>2. Mul(Mul(y, Inv(a)), a) = Mul(y, Mul(Inv(a), a))
      BY <2>1, <2>3, MulLaws
    <3> QED BY <2>1, <2>3, <3>1, <3>2, MulLaws
  <2> QED BY <2>1, <2>2, <2>4, <2>5 DEF a, y
<1>4. d \in Polynomials(n)
  <2>1. \A k \in 1 .. n : d[k] \in Field
    BY <1>3
  <2> QED BY <2>1 DEF Polynomials
<1> HIDE DEF d, v
<1>5. /\ c \in Seq(Field) /\ Len(c) <= n
      /\ \A k \in 1 .. n : Evaluate(c, u[k]) = Mul(d[k], Spread(u, k))
  BY <1>4, CombineUnfolds, CombineIs
<1>6. \A k \in 1 .. n : Evaluate(c, u[k]) = Evaluate(p, u[k])
  BY <1>3, <1>5
<1> HIDE DEF c, n
<1>7. Agree(c, p)
  <2>1. Len(p) <= n /\ n \in Nat
    BY <1>1 DEF n
  <2>2. /\ \A i \in 1 .. n : u[i] \in Field
        /\ \A i, j \in 1 .. n : u[i] = u[j] => i = j
    BY <1>1
  <2>3. c \in Seq(Field) /\ Len(c) <= n
    BY <1>5
  <2>4. \A i \in 1 .. n : Evaluate(c, u[i]) = Evaluate(p, u[i])
    BY <1>6
  <2> DEFINE xs == [i \in 1 .. n |-> u[i]]
  <2>5. \A i \in 1 .. n : xs[i] = u[i]
    OBVIOUS
  <2> HIDE DEF xs
  <2>6. \A i \in 1 .. n : xs[i] \in Field /\ Evaluate(c, xs[i]) = Evaluate(p, xs[i])
    BY <2>2, <2>4, <2>5
  <2>7. \A i, j \in 1 .. n : xs[i] = xs[j] => i = j
    BY <2>2, <2>5
  <2> QED BY <2>1, <2>3, <2>6, <2>7, SameValues
<1> QED BY <1>2, <1>5, <1>7 DEF v, n
-----------------------------------------------------------------------------
(***************************************************************************)
(* Toeplitz matrices.                                                      *)
(***************************************************************************)

LEMMA DomainIsEven ==
  ASSUME NEW n \in Nat, n >= 2
  PROVE  \E h \in Nat : DomainSizeFor(n) = 2 * h /\ 2 * h >= n
<1> DEFINE s == DomainSizeFor(n)
<1>1. /\ s \in Nat /\ s >= n /\ \E k \in 0 .. n : s = 2^k
  BY DomainSize
<1> HIDE DEF s
<1>2. PICK k \in 0 .. n : s = 2^k
  BY <1>1
<1>3. k # 0
  <2> SUFFICES ASSUME k = 0 PROVE FALSE
    OBVIOUS
  <2>1. 2^0 = 1
    OBVIOUS
  <2>2. s = 1
    BY <1>2, <2>1
  <2> QED BY <1>1, <2>2
<1>4. k - 1 \in Nat /\ (k - 1) + 1 = k
  BY <1>3
<1>5. 2^(k - 1) \in Nat /\ 2^((k - 1) + 1) = 2 * 2^(k - 1)
  BY <1>4, PowersOfTwo
<1>6. s = 2 * 2^(k - 1)
  BY <1>2, <1>4, <1>5
<1> QED BY <1>1, <1>5, <1>6 DEF s

LEMMA CirculantIs ==
  ASSUME NEW f \in Seq(Field), NEW N \in Nat, Len(f) - 1 <= N, DegreeDefined(f)
  PROVE  BuildCirculant(f, N) =
            [i \in 1 .. 2 * N |->
                IF i >= N + 2 THEN Coefficient(f, i - N)
                ELSE IF i \in {1, N + 1} /\ N = Len(f) - 1 THEN f[Len(f)]
                ELSE 0]
<1>1. Len(f) \in Nat
  BY SeqIsPolynomial
<1>2. ~(Degree(f) > N)
  BY <1>1 DEF Degree
<1> QED BY <1>2 DEF BuildCirculant

\* The index in the circulant that meets v[k], counted back from the middle, is
\* the one of the coefficient i + k.
LEMMA CirculantEntry ==
  ASSUME NEW f \in Seq(Field), NEW N \in Nat, Len(f) # 0, Len(f) - 1 <= N,
         DegreeDefined(f), NEW i \in 1 .. N, NEW k \in 1 .. N
  PROVE  BuildCirculant(f, N)[((i - (N + 1 - k)) % (2 * N)) + 1] = Coefficient(f, i + k)
<1> DEFINE e == i - (N + 1 - k)
           c == BuildCirculant(f, N)
           l == Len(f)
<1>1. l \in Nat /\ l # 0 /\ l - 1 <= N /\ N > 0 /\ i + k \in Int
  BY SeqIsPolynomial
<1>2. \A j \in 1 .. 2 * N : c[j] = IF j >= N + 2 THEN Coefficient(f, j - N)
                                  ELSE IF j \in {1, N + 1} /\ N = l - 1 THEN f[l]
                                  ELSE 0
  BY <1>1, CirculantIs
<1>3. /\ i + k \in 1 .. l => Coefficient(f, i + k) = f[i + k]
      /\ i + k \notin 1 .. l => Coefficient(f, i + k) = 0
  BY <1>1, CoefficientIs
<1> HIDE DEF c, l
<1>4. CASE e >= 0
  <2>1. e % (2 * N) = e /\ e + 1 \in 1 .. 2 * N /\ e + 1 < N + 2 /\ e + 1 # N + 1
        /\ e + 1 = i + k - N
    BY <1>1, <1>4
  <2>2. c[e + 1] = IF e + 1 = 1 /\ N = l - 1 THEN f[l] ELSE 0
    BY <1>2, <2>1
  <2>3. CASE e + 1 = 1 /\ N = l - 1
    <3>1. i + k = l /\ i + k \in 1 .. l
      BY <1>1, <2>1, <2>3
    <3> QED BY <1>3, <2>1, <2>2, <2>3, <3>1 DEF c
  <2>4. CASE ~(e + 1 = 1 /\ N = l - 1)
    <3>1. i + k \notin 1 .. l
      BY <1>1, <2>1, <2>4
    <3> QED BY <1>3, <2>1, <2>2, <2>4, <3>1 DEF c
  <2> QED BY <2>3, <2>4
<1>5. CASE e < 0
  <2>1. e + 2 * N \in 0 .. 2 * N - 1 /\ e \in Int /\ 2 * N \in Nat /\ 2 * N > 0
    BY <1>1, <1>5
  <2>2. e % (2 * N) = e + 2 * N
    <3>1. \A x \in Int, m \in Nat : m > 0 /\ x < 0 /\ x + m >= 0 => x % m = x + m
      OBVIOUS
    <3> HIDE DEF e
    <3>2. e + 2 * N >= 0
      BY <2>1
    <3> QED BY <1>5, <2>1, <3>1, <3>2
  <2>3. e + 2 * N + 1 \in 1 .. 2 * N /\ e + 2 * N + 1 >= N + 2
        /\ e + 2 * N + 1 - N = i + k
    BY <1>1, <1>5
  <2>4. c[e + 2 * N + 1] = Coefficient(f, i + k)
    BY <1>2, <2>3
  <2> QED BY <2>2, <2>4 DEF c
<1>6. e \in Int
  BY <1>1
<1> QED BY <1>4, <1>5, <1>6

\* toeplitz_mul (subproductdomain/src/lib.rs): element i of the result is the sum
\* of the f[i + k] v[k], whatever the lengths of the polynomial and the vector.
THEOREM ToeplitzMulIs ==
  ASSUME NEW f \in Seq(Field), Len(f) # 0, DegreeDefined(f), NEW v \in Seq(Field),
         NEW size \in Nat \ {0}, Len(v) <= size
  PROVE  \A i \in 1 .. Len(ToeplitzMul(f, v, size)) :
            ToeplitzMul(f, v, size)[i]
              = SumTo([k \in 1 .. Len(v) |-> Mul(Coefficient(f, i + k), v[k])], Len(v))
<1> DEFINE n == Len(v)
           l == Len(f)
           M == IF size >= l - 1 THEN size ELSE l - 1
<1>1. /\ n \in Nat /\ l \in Nat /\ l # 0 /\ n <= size /\ l - 1 <= M /\ n <= M /\ M \in Nat \ {0}
      /\ \A k \in 1 .. n : v[k] \in Field
  BY SeqIsPolynomial
<1>2. PICK N \in Nat : DomainSizeFor(2 * M) = 2 * N /\ 2 * N >= 2 * M
  <2>1. 2 * M \in Nat /\ 2 * M >= 2
    BY <1>1
  <2> HIDE DEF M
  <2> QED BY <2>1, DomainIsEven
<1>3. N > 0 /\ n <= N /\ l - 1 <= N /\ (2 * N) \div 2 = N
  BY <1>1, <1>2
<1> DEFINE tmp == [j \in 1 .. 2 * N |-> IF j > N - n /\ j <= N THEN v[N + 1 - j] ELSE 0]
           circ == BuildCirculant(f, N)
           conv == [i \in 1 .. 2 * N |->
                      SumTo([j \in 1 .. 2 * N |-> Mul(tmp[j], circ[((i - j) % (2 * N)) + 1])], 2 * N)]
           product == ToeplitzMul(f, v, size)
<1>4. product = SubSeq(conv, 1, N)
  <2> DEFINE tmp1(cs, ts) == [j \in 1 .. cs |-> IF j > ts - n /\ j <= ts THEN v[ts + 1 - j] ELSE 0]
  <2>1. product = SubSeq(CyclicConvolution(tmp1(2 * N, N), BuildCirculant(f, N)), 1, N)
    <3>1. BuildCirculant(f, N) # Panic
      <4>1. DOMAIN BuildCirculant(f, N) = 1 .. 2 * N
        BY <1>3, CirculantIs
      <4>2. 2 \in 1 .. 2 * N /\ 2 \notin DOMAIN Panic
        BY <1>3 DEF Panic
      <4> QED BY <4>1, <4>2
    <3>2. product = IF BuildCirculant(f, N) = Panic THEN Panic
                    ELSE SubSeq(CyclicConvolution(tmp1(2 * N, N), BuildCirculant(f, N)), 1, N)
      BY ONLY <1>2, <1>3 DEF ToeplitzMul
    <3> HIDE DEF product, tmp1
    <3> QED BY <3>1, <3>2
  <2>2. tmp1(2 * N, N) = tmp
    OBVIOUS
  <2>3. Len(tmp) = 2 * N
    BY <1>3
  <2> HIDE DEF tmp, tmp1, circ
  <2>4. CyclicConvolution(tmp, circ) = conv
    BY <2>3 DEF CyclicConvolution
  <2> QED BY <2>1, <2>2, <2>4 DEF circ
<1>5. \A j \in 1 .. 2 * N : tmp[j] \in Field /\ circ[j] \in Field
  <2> TAKE j \in 1 .. 2 * N
  <2>1. tmp[j] \in Field
    <3>1. CASE j > N - n /\ j <= N
      <4>1. N + 1 - j \in 1 .. n
        BY <1>1, <1>3, <3>1
      <4>2. tmp[j] = v[N + 1 - j]
        BY <3>1
      <4> HIDE DEF tmp
      <4> QED BY <1>1, <4>1, <4>2
    <3>2. CASE ~(j > N - n /\ j <= N)
      <4>1. tmp[j] = 0
        BY <3>2
      <4> QED BY <4>1, Closed
    <3> QED BY <3>1, <3>2
  <2>2. circ[j] \in Field
    <3>1. circ[j] = IF j >= N + 2 THEN Coefficient(f, j - N)
                    ELSE IF j \in {1, N + 1} /\ N = l - 1 THEN f[l] ELSE 0
      BY <1>3, CirculantIs
    <3>2. f[l] \in Field
      <4>1. l \in 1 .. Len(f)
        BY <1>1
      <4> QED BY <4>1, SeqIsPolynomial
    <3>3. Coefficient(f, j - N) \in Field
      BY CoefficientIs
    <3> QED BY <3>1, <3>2, <3>3, Closed
  <2> QED BY <2>1, <2>2
<1>6. \A j \in 1 .. 2 * N : tmp[j] = IF j > N - n /\ j <= N THEN v[N + 1 - j] ELSE 0
  OBVIOUS
<1> DEFINE term(i) == [j \in 1 .. 2 * N |-> Mul(tmp[j], circ[((i - j) % (2 * N)) + 1])]
<1>7. \A i \in 1 .. 2 * N : conv[i] = SumTo(term(i), 2 * N)
  OBVIOUS
<1>8. ASSUME NEW i \in 1 .. 2 * N, NEW j \in 1 .. 2 * N
      PROVE  /\ term(i)[j] = Mul(tmp[j], circ[((i - j) % (2 * N)) + 1])
             /\ term(i)[j] \in Field
             /\ tmp[j] = 0 => term(i)[j] = 0
  <2> DEFINE e == ((i - j) % (2 * N)) + 1
  <2>1. e \in 1 .. 2 * N
    <3>1. \A x \in Int, m \in Nat : m > 0 => (x % m) + 1 \in 1 .. m
      OBVIOUS
    <3>2. i - j \in Int /\ 2 * N \in Nat /\ 2 * N > 0
      BY <1>3
    <3> QED BY <3>1, <3>2
  <2>2. term(i)[j] = Mul(tmp[j], circ[e])
    OBVIOUS
  <2> HIDE DEF term, e, tmp, circ
  <2>3. tmp[j] \in Field /\ circ[e] \in Field
    BY <1>5, <2>1
  <2>4. /\ Mul(tmp[j], circ[e]) \in Field
        /\ tmp[j] = 0 => Mul(tmp[j], circ[e]) = 0
    BY <2>3, Closed, MulLaws
  <2> QED BY <2>2, <2>4 DEF e
<1>9. conv \in Polynomials(2 * N)
  <2>1. ASSUME NEW i \in 1 .. 2 * N
        PROVE  conv[i] \in Field
    <3>1. \A j \in 1 .. 2 * N : term(i)[j] \in Field
      BY <1>8
    <3> HIDE DEF conv, term
    <3>2. 2 * N \in Nat
      BY <1>3
    <3> QED BY <1>7, <3>1, <3>2, SumInField
  <2>2. conv = [i \in 1 .. 2 * N |-> conv[i]]
    OBVIOUS
  <2> HIDE DEF conv
  <2> QED BY <2>1, <2>2 DEF Polynomials
<1> HIDE DEF tmp, circ, conv, term, product
<1>10. Len(product) = N /\ \A i \in 1 .. N : product[i] = conv[i]
  <2>1. conv \in Seq(Field) /\ Len(conv) = 2 * N
    <3>1. 2 * N \in Nat
      BY <1>3
    <3> QED BY <1>9, <3>1, PolynomialIsSeq
  <2>2. 1 \in Nat /\ 1 >= 1 /\ N <= Len(conv) /\ 1 <= N + 1 /\ N + 1 - 1 = N
    BY <1>3, <2>1
  <2>3. /\ Len(SubSeq(conv, 1, N)) = N + 1 - 1
        /\ \A i \in 1 .. N + 1 - 1 : SubSeq(conv, 1, N)[i] = conv[1 + i - 1]
    BY <2>1, <2>2, SubSeqOfField
  <2>4. \A i \in 1 .. N : 1 + i - 1 = i
    OBVIOUS
  <2> QED BY <1>4, <2>2, <2>3, <2>4
<1>11. ASSUME NEW i \in 1 .. N
       PROVE  conv[i] = SumTo([k \in 1 .. n |-> Mul(Coefficient(f, i + k), v[k])], n)
  <2> DEFINE t == term(i)
             g == [k \in 1 .. N |-> t[N + 1 - k]]
             w == [k \in 1 .. n |-> Mul(Coefficient(f, i + k), v[k])]
  <2>1. i \in 1 .. 2 * N /\ 2 * N \in Nat /\ N <= 2 * N
    BY <1>3
  <2>2. \A j \in 1 .. 2 * N : t[j] \in Field
    BY <1>8, <2>1
  <2>3. \A j \in N + 1 .. 2 * N : t[j] = 0
    <3> TAKE j \in N + 1 .. 2 * N
    <3>1. j \in 1 .. 2 * N /\ ~(j <= N)
      BY <1>3
    <3>2. tmp[j] = 0
      BY <1>6, <3>1
    <3> QED BY <1>8, <2>1, <3>1, <3>2
  <2>4. \A k \in 1 .. N : N + 1 - k \in 1 .. N /\ N + 1 - k \in 1 .. 2 * N
                          /\ N + 1 - (N + 1 - k) = k /\ g[k] = t[N + 1 - k]
    BY <1>3
  <2> HIDE DEF t, g
  <2>5. SumTo(t, 2 * N) = SumTo(t, N)
    <3>1. \A j \in 1 .. N : t[j] \in Field
      <4> TAKE j \in 1 .. N
      <4>1. j \in 1 .. 2 * N
        BY <1>3
      <4> QED BY <2>2, <4>1
    <3> QED BY <2>1, <2>3, <3>1, SumExtends
  <2>6. SumTo(g, N) = SumTo(t, N)
    <3>1. \A j \in 1 .. N : t[j] \in Field /\ g[j] = t[N + 1 - j]
      <4> TAKE j \in 1 .. N
      <4>1. j \in 1 .. 2 * N
        BY <1>3
      <4> QED BY <2>2, <2>4, <4>1
    <3> QED BY <3>1, SumReversed
  <2>7. ASSUME NEW k \in 1 .. N
        PROVE  /\ g[k] \in Field
               /\ k > n => g[k] = 0
               /\ k <= n => g[k] = Mul(Coefficient(f, i + k), v[k])
    <3> DEFINE j == N + 1 - k
    <3>1. j \in 1 .. 2 * N /\ g[k] = t[j] /\ N + 1 - j = k /\ j <= N
          /\ (j > N - n <=> k <= n)
      BY <1>1, <2>4
    <3>2. g[k] \in Field
      BY <2>2, <3>1
    <3>3. ASSUME k > n PROVE g[k] = 0
      <4>1. ~(j > N - n)
        BY <1>1, <3>1, <3>3
      <4> HIDE DEF j
      <4>2. tmp[j] = 0
        BY <1>6, <3>1, <4>1
      <4> QED BY <1>8, <2>1, <3>1, <4>2 DEF t
    <3>4. ASSUME k <= n PROVE g[k] = Mul(Coefficient(f, i + k), v[k])
      <4>1. circ[((i - j) % (2 * N)) + 1] = Coefficient(f, i + k)
        <5>1. Len(f) # 0 /\ Len(f) - 1 <= N
          BY <1>1, <1>3
        <5> QED BY <5>1, CirculantEntry DEF circ
      <4> HIDE DEF j
      <4>2. tmp[j] = v[k]
        BY <1>6, <3>1, <3>4
      <4>3. g[k] = Mul(v[k], Coefficient(f, i + k))
        BY <1>8, <2>1, <3>1, <4>1, <4>2 DEF t
      <4>4. v[k] \in Field
        <5>1. k \in 1 .. n
          BY <1>1, <3>4
        <5> QED BY <1>1, <5>1
      <4>5. Coefficient(f, i + k) \in Field
        <5>1. i + k \in Int
          OBVIOUS
        <5> QED BY <5>1, CoefficientIs
      <4> QED BY <4>3, <4>4, <4>5, MulLaws
    <3> QED BY <3>2, <3>3, <3>4
  <2>8. SumTo(g, N) = SumTo(g, n)
    <3>1. \A k \in 1 .. n : g[k] \in Field
      <4> TAKE k \in 1 .. n
      <4>1. k \in 1 .. N
        BY <1>1, <1>3
      <4> QED BY <2>7, <4>1
    <3>2. \A k \in n + 1 .. N : g[k] = 0
      <4> TAKE k \in n + 1 .. N
      <4>1. k \in 1 .. N /\ k > n
        BY <1>1
      <4> QED BY <2>7, <4>1
    <3> HIDE DEF n
    <3> QED BY <1>1, <1>3, <3>1, <3>2, SumExtends
  <2>9. SumTo(g, n) = SumTo(w, n)
    <3>1. \A k \in 1 .. n : g[k] = w[k]
      <4> TAKE k \in 1 .. n
      <4>1. k \in 1 .. N /\ k <= n
        BY <1>1, <1>3
      <4> QED BY <2>7, <4>1
    <3> HIDE DEF n, w
    <3> QED BY <1>1, <3>1, SameSum
  <2>10. conv[i] = SumTo(t, 2 * N)
    BY <1>7, <2>1 DEF t
  <2> QED BY <2>5, <2>6, <2>8, <2>9, <2>10
<1> QED BY <1>10, <1>11 DEF product
=============================================================================
