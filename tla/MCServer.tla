------------------------------ MODULE MCServer ------------------------------
(* Inputs of two clients for model checking the server. *)
EXTENDS Server, TLC

CONSTANTS a, b

\* One client that fills the sockets in both directions; a line of every
\* kind; two clients.
Inputs ==
    {a :> <<"statement", "nonsense", "statement", "nonsense">> @@ b :> <<>>,
     a :> <<"blank", "statement", "huge", "statement">> @@ b :> <<>>,
     a :> <<"statement">> @@ b :> <<"statement">>}
=============================================================================
