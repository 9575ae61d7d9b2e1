------------------------ MODULE MCBalanceCollectors ------------------------
(***************************************************************************)
(* "a, b,,a": an address twice, one padded with a space, one entry empty.   *)
(***************************************************************************)
EXTENDS BalanceCollectors

CONSTANTS a, b

MCAccounts == {a, b}
MCList ==
  << [account |-> a, padded |-> FALSE], [account |-> b, padded |-> TRUE],
     [account |-> NoAccount, padded |-> FALSE], [account |-> a, padded |-> FALSE] >>
=============================================================================
