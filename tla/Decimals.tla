------------------------------- MODULE Decimals -------------------------------
(***************************************************************************)
(* How many wrapped units an amount of the token is, computed twice: by    *)
(* the lock contract (BridgeLock.sol, constructor and confirmDeposit) and  *)
(* by the authorizer (deposit/authorization.ts), which passes the result   *)
(* through a JavaScript number.  The bases are constants, so that a small  *)
(* instance has the boundaries of the real one.                            *)
(***************************************************************************)
EXTENDS Integers

CONSTANTS
    Radix,          \* 10
    TokenDecimals,  \* tokenDecimals, of the token and of the configuration
    XecDecimals,    \* xecDecimals, of the genesis and of the configuration
    SafeInteger,    \* 2^53: every integer up to it is a JavaScript number
    Uint64Max       \* 2^64 - 1

ASSUME DecimalsAssumption ==
    /\ Radix \in Nat \ {0, 1}
    /\ TokenDecimals \in Nat /\ XecDecimals \in Nat
    /\ SafeInteger \in Nat \ {0}
    /\ Uint64Max \in Nat \ {0}

\* Radix to the power of n.
Power[n \in Nat] == IF n = 0 THEN 1 ELSE Radix * Power[n - 1]

-----------------------------------------------------------------------------
(* The contract *)

XecHasMorePrecision == TokenDecimals < XecDecimals
DecimalsGap ==
    IF XecHasMorePrecision THEN XecDecimals - TokenDecimals ELSE TokenDecimals - XecDecimals
Scale == Power[DecimalsGap]

xecAmount(net) == IF XecHasMorePrecision THEN net * Scale ELSE net \div Scale

\* What confirmDeposit() does not revert as too small or too large.
Confirmable(net) == xecAmount(net) \in 1..Uint64Max

-----------------------------------------------------------------------------
(* The authorizer *)

Abs(n) == IF n < 0 THEN -n ELSE n

\* Faulty: the remainder is minted too.
RoundedUp(net) ==
    LET scale == Power[Abs(TokenDecimals - XecDecimals)]
    IN  IF TokenDecimals < XecDecimals THEN net * scale ELSE (net + scale - 1) \div scale

toXecAmount(net) ==
    LET scale == Power[Abs(TokenDecimals - XecDecimals)]
    IN  IF TokenDecimals < XecDecimals THEN net * scale ELSE net \div scale

\* The spacing of the numbers around n, and the number nearest to n, even at a tie.
Ulp(n) == CHOOSE u \in {2^k : k \in 1..11} : n <= SafeInteger * u /\ n > SafeInteger * (u \div 2)
Nearest(n) ==
    LET u == Ulp(n)
        q == n \div u
        r == n % u
    IN  u * (IF 2 * r > u \/ (2 * r = u /\ q % 2 = 1) THEN q + 1 ELSE q)

\* Number(xecAmount), of a bigint.
ToNumber(n) == IF n <= SafeInteger THEN n ELSE Nearest(n)

\* The quantity that is signed; nothing is when the amount converts to zero.
SignedAmount(net) == ToNumber(toXecAmount(net))
Signable(net) == toXecAmount(net) > 0
=============================================================================
