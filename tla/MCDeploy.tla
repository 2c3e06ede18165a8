------------------------------ MODULE MCDeploy ------------------------------
(* Rows of each kind, with the sharing of ECC rows that ecc[] has.           *)
EXTENDS Deploy

MCInfo == <<43, 42>>
MCKey  == <<30, 31>>
MCHash == <<8, 9>>
MCFlag == <<0, 1>>

MCEccRow == [r \in {43, 42, 30, 31, 8, 9, 0, 1} |->
               CASE r \in {43, 42} -> 39 [] r \in {30, 31} -> 38
                 [] r \in {8, 9} -> 24 [] OTHER -> 7]
MCRows   == DOMAIN MCEccRow \cup {39, 38, 24, 7}
MCColumn == [b \in {1, 2} |-> IF b = 1 THEN {1, 2, 3} ELSE {1, 2, 4}]

MCValue == [r \in {43, 42, 8, 9, 0, 1} |->
              CASE r = 43 -> {1, 2} [] r = 42 -> {1, 2} [] r = 8 -> {1}
                [] r = 9 -> {} [] r = 0 -> {1, 2} [] OTHER -> {1}]

\* Two keys that share no bit.
MCKeys == {[r \in {30, 31} |-> IF r = 30 THEN {1} ELSE {1, 2}],
           [r \in {30, 31} |-> {2}]}
=============================================================================
