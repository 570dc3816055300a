------------------------------ MODULE Refresh -------------------------------
(***************************************************************************)
(* Proactive updates of private key shares: the functions of               *)
(* tpke/src/refresh.rs.  A participant's share is the value of the secret  *)
(* polynomial at its domain point.                                         *)
(***************************************************************************)
EXTENDS Tpke

\* The constant term is chosen so that the polynomial with the coefficients
\* higher has a zero at root.  Seeded fault: it is not negated.
MakeRandomPolynomialPlus(higher, root) ==
    <<Evaluate(<<0>> \o higher, root)>> \o higher

MakeRandomPolynomialAt(higher, root) ==
    <<Neg(Evaluate(<<0>> \o higher, root))>> \o higher

\* The values of d, a polynomial with a zero at x_r, at the other points.
PrepareShareUpdatesForRecovery(points, d) ==
    [j \in DOMAIN points |-> Evaluate(d, points[j])]

\* The share and all updates received, added up.
UpdateShareForRecovery(share, updates) ==
    Add(share, SumTo(updates, Len(updates)))

\* Interpolation of the updated shares at x_r.  Seeded fault: at zero.
RecoverAtZero(x_r, points, updated) ==
    LET lagrange == LagrangeBasisAt(points, 0)
    IN  SumTo([k \in 1 .. Len(points) |-> Mul(updated[k], lagrange[k])],
              Len(points))

RecoverShareFromUpdatedPrivateShares(x_r, points, updated) ==
    LET lagrange == LagrangeBasisAt(points, x_r)
    IN  SumTo([k \in 1 .. Len(points) |-> Mul(updated[k], lagrange[k])],
              Len(points))

\* Seeded fault: the update replaces the share.
ReplacePrivateKeyShare(point, polynomial, share) == Evaluate(polynomial, point)

RefreshPrivateKeyShare(point, polynomial, share) ==
    Add(share, Evaluate(polynomial, point))
=============================================================================
