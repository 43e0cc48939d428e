--------------------------- MODULE MCSocketFraming ---------------------------
EXTENDS SocketFraming

MCJsonTexts ==
  { [space |-> 0, text |-> <<"open", "close">>],
    [space |-> 1, text |-> <<"open", "other", "open", "close", "close">>],
    [space |-> 2, text |-> <<"open", "open", "close", "open", "close", "close">>] }
=============================================================================
