---- MODULE MCEarlierProduct ----
(* The earlier product: its API, or the sign-in of its web front end, which *)
(* share nothing that either of them writes, so that one of them runs in a  *)
(* behaviour.                                                               *)
EXTENDS ClaimMarket, WebSignIn, TLC

CONSTANTS ada, issuer, mixed, mock, own

(* The demo user's address is typed in capitals, while the demo's own       *)
(* registration has it in lower case.                                       *)
MCTypedLogins == {<<[address |-> issuer, spelling |-> mixed], mock>>,
                  <<[address |-> ada, spelling |-> lower], own>>}

MCSymmetry == Permutations(User) \cup Permutations(Call) \cup Permutations(Tab)

VARIABLE part

EarlierInit ==
  /\ part \in {"api", "signIn"}
  /\ Init
  /\ IF part = "signIn" THEN SignInInit
     ELSE /\ users = {} /\ session = Nil /\ fetches = <<>>
          /\ tabs = [t \in Tab |-> [event |-> TRUE]] \* nothing is shown

EarlierNext ==
  /\ UNCHANGED part
  /\ \/ part = "api" /\ Next /\ UNCHANGED signInVars
     \/ part = "signIn" /\ SignInNext /\ UNCHANGED vars

EarlierSpec == EarlierInit /\ [][EarlierNext]_<<part, vars, signInVars>>
====
