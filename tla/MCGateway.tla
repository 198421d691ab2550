----------------------------- MODULE MCGateway ------------------------------
(***************************************************************************)
(* Instances of Gateway for TLC.                                           *)
(***************************************************************************)
EXTENDS Gateway, TLC

(* Two applications and a session, which has two objects of one task, share *)
(* B; apart from them two hasty applications share C.                       *)
ManyUses ==
  "a" :> <<"A", "B">> @@ "b" :> <<"B">> @@ "s" :> <<"B", "B">> @@ "h" :> <<"C">> @@ "g" :> <<"C">>
TwoCasts == {{"a", "b", "s"}, {"h", "g"}}
TwoNeeds == "i" :> <<"A", "B">> @@ "j" :> <<"B">>
TwoBy == "i" :> "a" @@ "j" :> "s"

=============================================================================
