-------------------------------- MODULE CArith --------------------------------
(***************************************************************************)
(* Integer division as C++ defines it: the quotient is cut off towards zero *)
(* and the remainder has the sign of the dividend.  TLA+'s \div and % round  *)
(* downwards, which differs on negative dividends.                          *)
(***************************************************************************)
EXTENDS Integers

CDiv(a, b) == IF a >= 0 THEN a \div b ELSE -((-a) \div b)

CMod(a, b) == IF a >= 0 THEN a % b ELSE -((-a) % b)
=============================================================================
