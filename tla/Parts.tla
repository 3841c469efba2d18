------------------------------- MODULE Parts --------------------------------
(***************************************************************************)
(* Components that share no state are model-checked side by side: a        *)
(* behaviour picks a part when it starts and takes only steps of that      *)
(* part, so that the states of a run are the sum, not the product, of the  *)
(* states of its parts.                                                    *)
(*                                                                         *)
(* v1, v2, ... stand for the variables of the part; an instance says which *)
(* is which.  A part with n - 1 variables leaves idle those of rest<n>.    *)
(***************************************************************************)
EXTENDS Integers, Sequences, FiniteSets, TLC

VARIABLES
  part, v1, v2, v3, v4, v5, v6, v7, v8, v9, v10, v11,
  v12, v13, v14, v15, v16, v17, v18, v19, v20, v21, v22

rest22 == <<v22>>
rest21 == <<v21, rest22>>
rest20 == <<v20, rest21>>
rest19 == <<v19, rest20>>
rest18 == <<v18, rest19>>
rest17 == <<v17, rest18>>
rest16 == <<v16, rest17>>
rest15 == <<v15, rest16>>
rest14 == <<v14, rest15>>
rest13 == <<v13, rest14>>
rest12 == <<v12, rest13>>
rest11 == <<v11, rest12>>
rest10 == <<v10, rest11>>
rest9 == <<v9, rest10>>
rest8 == <<v8, rest9>>
rest7 == <<v7, rest8>>
rest6 == <<v6, rest7>>
rest5 == <<v5, rest6>>
rest4 == <<v4, rest5>>
rest3 == <<v3, rest4>>
rest2 == <<v2, rest3>>

all == <<part, v1, rest2>>

idle22 == v22 = 0
idle21 == v21 = 0 /\ idle22
idle20 == v20 = 0 /\ idle21
idle19 == v19 = 0 /\ idle20
idle18 == v18 = 0 /\ idle19
idle17 == v17 = 0 /\ idle18
idle16 == v16 = 0 /\ idle17
idle15 == v15 = 0 /\ idle16
idle14 == v14 = 0 /\ idle15
idle13 == v13 = 0 /\ idle14
idle12 == v12 = 0 /\ idle13
idle11 == v11 = 0 /\ idle12
idle10 == v10 = 0 /\ idle11
idle9 == v9 = 0 /\ idle10
idle8 == v8 = 0 /\ idle9
idle7 == v7 = 0 /\ idle8
idle6 == v6 = 0 /\ idle7
idle5 == v5 = 0 /\ idle6
idle4 == v4 = 0 /\ idle5
idle3 == v3 = 0 /\ idle4
idle2 == v2 = 0 /\ idle3

(* A part that has come to its end, or to its bounds. *)
Rest(parts) == part \in parts /\ UNCHANGED all

(* The blocks of the ledger: b1 <- b2 <- b3, and b4, of the same round as
   b3, with the body of b1.                                               *)
LedgerIds == {"b1", "b2", "b3", "b4"}
LedgerParent == [b1 |-> "genesis", b2 |-> "b1", b3 |-> "b2", b4 |-> "b2"]
LedgerSeqNum == [b1 |-> 1, b2 |-> 2, b3 |-> 3, b4 |-> 3]
LedgerRound == [b1 |-> 1, b2 |-> 2, b3 |-> 4, b4 |-> 4]
LedgerBody == [b1 |-> "p1", b2 |-> "p2", b3 |-> "p3", b4 |-> "p1"]
LedgerRanges == {[last |-> b, num |-> n] : b \in {"b3", "b4"}, n \in {2, 3}}
=============================================================================
