------------------------- MODULE MCManagementServer -------------------------
EXTENDS ManagementServer, TLC

(* The gateways that matter: one that admits nobody, and those that admit   *)
(* the client by preference, as a friend, or through the set intersection.  *)
Gateway(psi, friend, anonymous, liability) ==
  [psi |-> psi, friend |-> friend, directFriends |-> TRUE, enoughFoFs |-> FALSE, uplink |-> TRUE,
   anonymous |-> anonymous, friends |-> TRUE, liability |-> liability]

MCPrefs == {Gateway(FALSE, FALSE, TRUE, FALSE), Gateway(TRUE, TRUE, FALSE, FALSE),
            Gateway(TRUE, FALSE, TRUE, FALSE), Gateway(FALSE, FALSE, FALSE, FALSE),
            Gateway(FALSE, TRUE, FALSE, TRUE)}
OpenPrefs == {Gateway(FALSE, FALSE, TRUE, FALSE)}
LiablePrefs == {Gateway(FALSE, TRUE, FALSE, TRUE)}
SymRequests == Permutations(Request)
=============================================================================
