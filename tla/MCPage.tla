------------------------------- MODULE MCPage -------------------------------
(* Looks for HostPage's ids: one part has two tags, one root two texts. *)
EXTENDS HostPage

PageLooks ==
  [id \in PageIds |-> CASE id = "a" -> {<<"p", "">>, <<"h1", "">>}
                        [] id = "u" -> {<<"li", "">>, <<"li", "x">>}
                        [] OTHER    -> {<<"section", "">>}]
=============================================================================
