--------------------------- MODULE MCServiceParts ---------------------------
(* Two commands: a creation and an input to it, or an input and its cancel.  *)
EXTENDS ServiceParts

Streams == {<<"creation", "input">>, <<"input", "cancel">>}

Targets == <<1, 1>>

=============================================================================
