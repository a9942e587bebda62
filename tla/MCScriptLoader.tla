---- MODULE MCScriptLoader ----
EXTENDS ScriptLoader
MCSymbol   == [n \in Name |-> n]
MCEmbedded == [s \in Name |-> CASE s = "banner" -> "good" [] s = "test" -> "none"
                                [] s = "bad" -> "broken" [] s = "typo" -> "garbled"]
MCResults  == {<<>>, <<"a", "b">>}
====
