------------------------------ MODULE MCSyckSt ------------------------------
(***************************************************************************)
(* Two addresses spell "t".  Its hash is that of "u"; "v" falls in their   *)
(* bin only after the rehash, "w" only before.  The fourth text asks for a *)
(* rehash when the primes have run out.                                    *)
(***************************************************************************)
EXTENDS SyckSt, TLC

CONSTANTS t1, t2, u, v, w

SmallSpell == t1 :> "t" @@ t2 :> "t" @@ u :> "u" @@ v :> "v" @@ w :> "w"
SmallHash == "t" :> 0 @@ "u" :> 0 @@ "v" :> 3 @@ "w" :> 4
SmallPrimes == <<2, 3>>
=============================================================================
