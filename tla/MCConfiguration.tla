--------------------------- MODULE MCConfiguration ---------------------------
(* A number and a text of the configuration for TLC. *)
EXTENDS Configuration, TLC

mc_Layout == <<"RAM_SIZE_MB", "OS_NAME">>
mc_Numbers == {"RAM_SIZE_MB"}
mc_Limit == "RAM_SIZE_MB" :> 20
mc_Texts == {<<>>, <<"MiniOS">>, <<"Mi">>, <<"Mi", "OS">>}
mc_Shorter == [text \in mc_Texts |-> IF text = <<>> THEN {} ELSE {<<"Mi">>, <<Head(text)>>}]
mc_Default == "RAM_SIZE_MB" :> 2 @@ "OS_NAME" :> <<"MiniOS">>
=============================================================================
