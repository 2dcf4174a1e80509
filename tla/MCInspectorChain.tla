-------------------------- MODULE MCInspectorChain --------------------------
(* InspectorChain for TLC: the chain main.go builds with every inspector on. *)
EXTENDS InspectorChain

CONSTANTS regex, modelArmor, dlp

MCInspectors == {regex, modelArmor, dlp}
MCKind == [i \in MCInspectors |-> CASE i = regex -> "regex"
                                    [] i = modelArmor -> "model_armor"
                                    [] OTHER -> "dlp"]
=============================================================================
