---------------------------- MODULE CfarContract ----------------------------
(***************************************************************************)
(* What a buyer of CFAR is promised, whatever the API does underneath: a   *)
(* booking sold with CFAR is not closed before the CFAR has been paid out, *)
(* a payout is not taken back, and a closed booking stays closed.          *)
(***************************************************************************)
CONSTANT Contract     \* bookings, sold or not

VARIABLE contract

Init == contract = [b \in Contract |-> "none"]

Sell(b) ==
  /\ contract[b] = "none"
  /\ \E kind \in {"insured", "uninsured"} :
       contract' = [contract EXCEPT ![b] = kind]

PayOut(b) ==
  /\ contract[b] = "insured"
  /\ contract' = [contract EXCEPT ![b] = "paid"]

Close(b) ==
  /\ contract[b] \in {"paid", "uninsured"}
  /\ contract' = [contract EXCEPT ![b] = "closed"]

Next == \E b \in Contract : Sell(b) \/ PayOut(b) \/ Close(b)

Spec == Init /\ [][Next]_contract
=============================================================================
