----------------------------- MODULE MCKoppeling -----------------------------
(***************************************************************************)
(* Small instances of Koppeling: two Recras instances with a user each,    *)
(* or one instance.                                                        *)
(***************************************************************************)
EXTENDS Koppeling, TLC

CONSTANTS h1, h2, u1, u2, g1, g2, timer, web1

TwoHosts == u1 :> h1 @@ u2 :> h2
OneHost == [u \in User |-> h1]

Grants == Permutations(Grant)

=============================================================================
