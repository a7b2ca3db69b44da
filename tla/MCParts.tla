------------------------------ MODULE MCParts ------------------------------
(***************************************************************************)
(* The instance of each of the Parts for TLC.                              *)
(***************************************************************************)
EXTENDS Parts, TLC

CONSTANTS c, d, x, y    \* model values, two and two alike: clients or versions, services or sessions

MCAlike == {p @@ q : p \in Permutations({c, d}), q \in Permutations({x, y})}

MCAdv   == [name : BOOLEAN, data : Data]
MCWants == "all" :> MCAdv @@ "one" :> {a \in MCAdv : a.data = 1}

MCTells == "own" :> {"a"} @@ "extra" :> {"a", "b"}

MCPreferred == "multi" :> ("ezsp" :> 1 @@ "rest" :> 2) @@ "otbr" :> ("rest" :> 2)

MCOwner == [i \in Ids |-> "I"]
=============================================================================
